---------------------------- MODULE DefinesProofs ----------------------------
(***************************************************************************)
(* Defines, for any architectures, variables and files: the variables of the *)
(* shell are those of the final host, with the values of the most specific *)
(* assignments; no symbols are split off in stage 2; the paths are derived *)
(* once; and what an architecture appends to an array is in it once.       *)
(*                                                                         *)
(* Data says of every value where it was read, and the later passes are    *)
(* followed from there.  What a sourced file does, line after line, is a   *)
(* recursive function: the lemmas reason on the least line that breaks a claim. *)
(***************************************************************************)
EXTENDS Defines, WellFoundedInduction, TLAPS

LEMMA NoneIsNoHost == None \notin {Native32, NoArch} /\ PrefixOf(None) \in PrefixNames
BY DEF None, Native32, NoArch, PrefixOf, PrefixNames

-----------------------------------------------------------------------------
(* What the search finds.                                                  *)

\* The search gives one file at most, and one that exists.
LEMMA FoundExists ==
  ASSUME NEW path \in Found
  PROVE  Found = {path} /\ path \in DOMAIN input.tree
<1>1. \A dir : FileIn(dir) # {} =>
         \E p \in DOMAIN input.tree : FileIn(dir) = {p}
  <2> SUFFICES ASSUME NEW dir, FileIn(dir) # {}
               PROVE  \E p \in DOMAIN input.tree : FileIn(dir) = {p}
    OBVIOUS
  <2> DEFINE exists == {s \in BOOLEAN : <<dir, s>> \in DOMAIN input.tree /\ (s => NativeStage2)}
  <2>1. exists # {} /\ FileIn(dir) = {<<dir, TRUE \in exists>>}
    BY DEF FileIn
  <2>2. <<dir, TRUE \in exists>> \in DOMAIN input.tree
    <3>1. CASE TRUE \in exists
      <4>1. (TRUE \in exists) = TRUE
        BY <3>1
      <4> QED BY <3>1, <4>1
    <3>2. CASE TRUE \notin exists
      <4>1. (TRUE \in exists) = FALSE
        BY <3>2
      <4>2. FALSE \in exists
        BY <2>1, <3>2
      <4> QED BY <4>1, <4>2
    <3> QED BY <3>1, <3>2
  <2>3. \E p \in DOMAIN input.tree : p = <<dir, TRUE \in exists>>
    BY <2>2
  <2> HIDE DEF exists
  <2> QED BY <2>1, <2>3
<1> DEFINE hits == {i \in DOMAIN SearchOrder : FileIn(SearchOrder[i]) # {}}
<1>2. Found = FileIn(SearchOrder[Min(hits)])
  BY DEF Found
<1>3. PICK p \in DOMAIN input.tree : FileIn(SearchOrder[Min(hits)]) = {p}
  <2> HIDE DEF hits
  <2> QED BY <1>1, <1>2
<1> QED BY <1>2, <1>3

\* The same host, architecture and stage find the same file.
LEMMA FoundAgain ==
  ASSUME UNCHANGED <<input, ARCH, ABHOST, ABSTAGE2>>
  PROVE  Found' = Found
BY DEF Found, SearchOrder, FileIn, NativeStage2

\* What an input says of itself.
LEMMA InputFacts ==
  ASSUME input \in Inputs, NEW path \in DOMAIN input.tree
  PROVE  /\ input.host \in Hosts \cup {None}
         /\ input.tree[path].ABHOST \in {None, input.host}
         /\ input.tree[path].allow \in Allow /\ input.tree[path].fail \subseteq Hosts
         /\ path \in Paths
BY DefinesAssumption DEF DefinesAssumption, InputOK

-----------------------------------------------------------------------------
(* One host.                                                               *)

Early == {"arguments", "defaults", "modifiers", "first"}
Late  == {"compiler", "arch", "second", "check", "ready"}

\* No reading to come changes ABHOST: the package's own host is assigned, or
\* the file that was found is found again and assigns none.
HostSettled ==
  \/ ABHOST = input.host
  \/ ABHOST = ARCH /\ \A path \in Found : input.tree[path].ABHOST = None

HostInv ==
  /\ input \in Inputs
  /\ pc \in Early => ABHOST = ARCH
  /\ pc = "enable" \/ pc \in Early => CC = NoCompiler
  /\ pc \in Early \cup Late => ABBUILD = ARCH /\ ARCH # None
  /\ pc \in Late => HostSettled
  /\ pc = "compiler" => CC = NoCompiler
  /\ pc \in Late \ {"compiler"} =>
        ABHOST \in {ARCH, Native32, NoArch} /\ (CC # NoCompiler => CC[1] = ABHOST)
  /\ pc \in {"second", "check", "ready"} => archHost = ABHOST /\ PREFIX = PrefixOf(ABHOST)

LEMMA HostInit == Init => HostInv
BY DEF Init, HostInv, Early, Late

\* A step that leaves the variables of the search alone leaves the host settled.
LEMMA SettledStays ==
  ASSUME HostSettled, UNCHANGED <<input, ARCH, ABHOST, ABSTAGE2>>
  PROVE  HostSettled'
BY FoundAgain DEF HostSettled

LEMMA HostStep == HostInv /\ [Next]_vars => HostInv'
<1> SUFFICES ASSUME HostInv, [Next]_vars PROVE HostInv'
  OBVIOUS
<1> USE DEF HostInv, Early, Late
<1>1. CASE UNCHANGED vars
  <2>1. pc \in Late => HostSettled'
    BY <1>1, SettledStays DEF vars, arches
  <2> QED BY <1>1, <2>1 DEF vars, arches
<1>2. CASE Enable
  BY <1>2, DefinesAssumption DEF Enable, SetArchVariables, DefinesAssumption
<1>3. CASE Arguments
  BY <1>3 DEF Arguments, SetArchVariables, arches
<1>4. CASE LoadDefaults
  BY <1>4 DEF LoadDefaults, arches
<1>5. CASE ParseModifiers
  BY <1>5 DEF ParseModifiers, arches
<1>6. CASE FirstDefines
  <2>1. CASE Found = {} /\ Die
    BY <1>6, <2>1, FoundExists DEF FirstDefines, LoadDefines, Die, arches
  <2>2. ASSUME NEW path \in Found,
               ABHOST' = IF input.tree[path].ABHOST = None THEN ABHOST
                         ELSE input.tree[path].ABHOST,
               pc' \in {"compiler", "dead"},
               UNCHANGED <<input, ARCH, ABBUILD, ABSTAGE2, PREFIX, CC, archHost>>
        PROVE  HostInv'
    <3>1. Found = {path} /\ input.tree[path].ABHOST \in {None, input.host}
      BY FoundExists, InputFacts
    <3>2. CASE input.tree[path].ABHOST = None
      <4>1. Found' = Found /\ ABHOST' = ARCH'
        BY <1>6, <2>2, <3>2, FoundAgain DEF FirstDefines
      <4>2. HostSettled'
        BY <2>2, <3>1, <3>2, <4>1 DEF HostSettled
      <4> QED BY <1>6, <2>2, <4>2 DEF FirstDefines
    <3>3. CASE input.tree[path].ABHOST # None
      <4>1. HostSettled'
        BY <2>2, <3>1, <3>3 DEF HostSettled
      <4> QED BY <1>6, <2>2, <4>1 DEF FirstDefines
    <3> QED BY <3>2, <3>3
  <2> QED BY <1>6, <2>1, <2>2 DEF FirstDefines, LoadDefines, Die
<1>7. CASE ChooseCompiler
  <2>1. HostSettled'
    BY <1>7, SettledStays DEF ChooseCompiler, arches
  <2>2. pc = "compiler" /\ CC = NoCompiler /\ ABBUILD = ARCH
    BY <1>7 DEF ChooseCompiler
  <2>3. UNCHANGED <<input, ARCH, ABHOST, ABBUILD>>
    BY <1>7 DEF ChooseCompiler, arches
  <2>4. /\ pc' \in {"arch", "dead"}
        /\ CC' = CC \/ CC' = <<ABHOST, Bool("USECLANG")>>
        /\ pc' = "arch" => ABHOST \in {ARCH, Native32, NoArch}
    BY <1>7, <2>2 DEF ChooseCompiler
  <2>5. CC' # NoCompiler => CC'[1] = ABHOST
    BY <2>2, <2>4
  <2> QED BY <2>1, <2>2, <2>3, <2>4, <2>5
<1>8. CASE LoadArch
  <2>1. HostSettled'
    BY <1>8, SettledStays DEF LoadArch, arches
  <2> QED BY <1>8, <2>1 DEF LoadArch, arches, Die
<1>9. CASE SecondDefines
  <2>1. CASE Found = {} /\ Die
    BY <1>9, <2>1, FoundExists DEF SecondDefines, LoadDefines, Die, arches
  <2>2. ASSUME NEW path \in Found,
               ABHOST' = IF input.tree[path].ABHOST = None THEN ABHOST
                         ELSE input.tree[path].ABHOST,
               pc' \in {"check", "dead"},
               UNCHANGED <<input, ARCH, ABBUILD, ABSTAGE2, PREFIX, CC, archHost>>
        PROVE  HostInv'
    <3>1. input.tree[path].ABHOST \in {None, input.host}
      BY FoundExists, InputFacts
    <3>2. ABHOST' = ABHOST
      BY <1>9, <2>2, <3>1 DEF SecondDefines, HostSettled
    <3>3. HostSettled'
      BY <1>9, <2>2, <3>2, SettledStays DEF SecondDefines
    <3> QED BY <1>9, <2>2, <3>2, <3>3 DEF SecondDefines
  <2> QED BY <1>9, <2>1, <2>2 DEF SecondDefines, LoadDefines, Die
<1>10. CASE Check
  <2>1. HostSettled'
    BY <1>10, SettledStays DEF Check, arches
  <2> QED BY <1>10, <2>1 DEF Check, arches
<1>11. CASE Ended
  BY <1>1, <1>11 DEF Ended
<1> QED
  BY <1>1, <1>2, <1>3, <1>4, <1>5, <1>6, <1>7, <1>8, <1>9, <1>10, <1>11 DEF Next

-----------------------------------------------------------------------------
(* Induction over the lines of a file.  A set stands for what is proved.   *)

LEMMA Least == ASSUME NEW T \in SUBSET Nat, T # {} PROVE \E x \in T : \A y \in T : x <= y
<1> DEFINE R == {ss \in Nat \X Nat : ss[1] < ss[2]}
<1>1. IsWellFoundedOn(R, Nat)
  BY NatLessThanWellFounded DEF OpToRel
<1> HIDE DEF R
<1>2. PICK x \in T : \A y \in T : ~(<<y, x>> \in R)
  BY <1>1, WFMin
<1>3. ASSUME NEW y \in T PROVE x <= y
  <2>1. <<y, x>> \notin R /\ x \in Nat /\ y \in Nat
    BY <1>2
  <2>2. y < x => <<y, x>> \in R
    BY <2>1 DEF R
  <2> QED BY <2>1, <2>2
<1> QED BY <1>3

LEMMA LeastIsMin ==
  ASSUME NEW T \in SUBSET Nat, T # {}
  PROVE  Min(T) \in T /\ \A y \in T : Min(T) <= y
BY Least DEF Min

LEMMA UpTo ==
  ASSUME NEW n \in Nat, NEW S, 0 \in S, \A k \in 0..(n - 1) : k \in S => k + 1 \in S
  PROVE  \A k \in 0..n : k \in S
<1> SUFFICES ASSUME NEW j \in 0..n, j \notin S PROVE FALSE
  OBVIOUS
<1> DEFINE T == {k \in 0..n : k \notin S}
<1>1. T \in SUBSET Nat /\ T # {}
  OBVIOUS
<1>2. PICK x \in T : \A y \in T : x <= y
  BY <1>1, Least
<1>3. x # 0 /\ x - 1 \in 0..(n - 1) /\ x - 1 \notin T
  BY <1>2
<1>4. x - 1 \in S
  BY <1>3
<1>5. (x - 1) + 1 \in S
  BY <1>3, <1>4
<1> QED BY <1>2, <1>5

-----------------------------------------------------------------------------
(* What one reading of a defines file does to the shell.                   *)

Shells == [Names -> Value]
Lines(path) == input.tree[path].lines

\* The variables that the search and the assignments depend on.
Typed ==
  /\ input \in Inputs /\ PREFIX \in PrefixNames
  /\ shell \in Shells /\ refs \in [Base -> SuffixNames]

LEMMA LineFacts ==
  ASSUME Typed, NEW path \in DOMAIN input.tree
  PROVE  /\ Lines(path) \in Seq(Assignment) /\ path \in Paths /\ Len(Lines(path)) \in Nat
         /\ \A k \in 1..Len(Lines(path)) :
              /\ Lines(path)[k] \in Assignment
              /\ Target(Lines(path)[k]) \in Names /\ Cell(Lines(path)[k].base) \in Names
              /\ MarkOf(path, k, Lines(path)[k]) \in Mark
<1>1. Lines(path) \in Seq(Assignment) /\ path \in Paths
  BY DefinesAssumption DEF DefinesAssumption, InputOK, Lines, Typed
<1>2. ASSUME NEW k \in 1..Len(Lines(path))
      PROVE  /\ Lines(path)[k] \in Assignment
             /\ Target(Lines(path)[k]) \in Names /\ Cell(Lines(path)[k].base) \in Names
             /\ MarkOf(path, k, Lines(path)[k]) \in Mark
  <2>1. Lines(path)[k] \in Assignment /\ k \in Nat
    BY <1>1
  <2>2. /\ Lines(path)[k].base \in Base /\ Lines(path)[k].as \in SuffixNames
        /\ Lines(path)[k].on \in BOOLEAN
    BY <2>1 DEF Assignment
  <2>3. MarkOf(path, k, Lines(path)[k]) \in Mark
    BY <1>1, <2>1, <2>2 DEF MarkOf, Mark, Typed
  <2> QED BY <2>1, <2>2, <2>3 DEF Target, Cell, Names, Typed
<1> QED BY <1>1, <1>2

\* What a line leaves in a variable.
LEMMA LineStep ==
  ASSUME Typed, NEW path \in DOMAIN input.tree, NEW k \in 1..Len(Lines(path)), NEW sh \in Shells
  PROVE  /\ Line(sh, path, k) \in Shells
         /\ \A c \in Names : Line(sh, path, k)[c] =
              IF c = Target(Lines(path)[k])
              THEN Assigned(sh[c], sh[Cell(Lines(path)[k].base)], Lines(path)[k],
                            MarkOf(path, k, Lines(path)[k]))
              ELSE sh[c]
<1> DEFINE a == Lines(path)[k]
           m == MarkOf(path, k, a)
           t == Target(a)
<1>1. a \in Assignment /\ t \in Names /\ Cell(a.base) \in Names /\ m \in Mark
  BY LineFacts
<1>2. Line(sh, path, k) = [sh EXCEPT ![t] = Assigned(sh[t], sh[Cell(a.base)], a, m)]
  BY DEF Line, Lines
<1>3. Assigned(sh[t], sh[Cell(a.base)], a, m) \in Value
  <2>1. a.kind \in {"scalar", "array"}
    BY <1>1 DEF Assignment
  <2>2. sh[t] \in Value /\ sh[Cell(a.base)] \in Value
    BY <1>1 DEF Shells
  <2> HIDE DEF a, m, t
  <2>3. \A old, plain \in Value : Assigned(old, plain, a, m) \in Value
    <3> SUFFICES ASSUME NEW old \in Value, NEW plain \in Value PROVE Assigned(old, plain, a, m) \in Value
      OBVIOUS
    <3>1. /\ old.kind \in {"unset", "scalar", "array"} /\ old.marks \in Seq(Mark)
          /\ plain.marks \in Seq(Mark)
      BY DEF Value
    <3>2. /\ Append(old.marks, m) \in Seq(Mark) /\ Append(plain.marks, m) \in Seq(Mark)
          /\ <<m>> \in Seq(Mark)
      BY <1>1, <3>1
    <3> QED BY <2>1, <3>1, <3>2 DEF Assigned, Value
  <2> QED BY <2>2, <2>3
<1> HIDE DEF a, m, t
<1>4. Line(sh, path, k) \in Shells
  BY <1>1, <1>2, <1>3 DEF Shells
<1>5. \A c \in Names : Line(sh, path, k)[c] =
         IF c = t THEN Assigned(sh[c], sh[Cell(a.base)], a, m) ELSE sh[c]
  BY <1>1, <1>2, <1>3 DEF Shells
<1> QED BY <1>4, <1>5 DEF a, m, t

\* The recursion over the lines is well defined.
LEMMA AfterLines ==
  ASSUME Typed, NEW path \in DOMAIN input.tree
  PROVE  /\ After(path) \in [0..Len(Lines(path)) -> Shells]
         /\ After(path)[0] = shell
         /\ \A k \in 1..Len(Lines(path)) : After(path)[k] = Line(After(path)[k - 1], path, k)
<1> DEFINE n == Len(Lines(path))
           IsRun(f, m) == /\ f \in [0..m -> Shells] /\ f[0] = shell
                          /\ \A k \in 1..m : f[k] = Line(f[k - 1], path, k)
           S == {m \in 0..n : \E f \in [0..m -> Shells] : IsRun(f, m)}
<1>1. n \in Nat /\ shell \in Shells
  BY LineFacts DEF Typed
<1> HIDE DEF n
<1>2. 0 \in S
  <2> DEFINE f == [k \in 0..0 |-> shell]
  <2>1. f \in [0..0 -> Shells] /\ IsRun(f, 0)
    BY <1>1
  <2> HIDE DEF f
  <2> QED BY <1>1, <2>1
<1>3. ASSUME NEW m \in 0..(n - 1), m \in S PROVE m + 1 \in S
  <2>1. PICK f \in [0..m -> Shells] : IsRun(f, m)
    BY <1>3
  <2> DEFINE g == [k \in 0..(m + 1) |-> IF k <= m THEN f[k] ELSE Line(f[m], path, m + 1)]
  <2>2. Line(f[m], path, m + 1) \in Shells
    <3>1. m + 1 \in 1..n /\ m \in 0..m
      BY <1>1
    <3> QED BY <2>1, <3>1, LineStep DEF n
  <2>3. g \in [0..(m + 1) -> Shells]
    BY <1>1, <2>1, <2>2
  <2>4. g[0] = shell /\ \A k \in 1..(m + 1) : g[k] = Line(g[k - 1], path, k)
    <3>1. g[0] = shell
      BY <1>1, <2>1
    <3>2. ASSUME NEW k \in 1..m PROVE g[k] = Line(g[k - 1], path, k)
      <4>1. g[k] = f[k] /\ g[k - 1] = f[k - 1]
        BY <1>1
      <4> QED BY <2>1, <4>1
    <3>3. g[m + 1] = Line(g[m], path, m + 1)
      <4>1. g[m + 1] = Line(f[m], path, m + 1) /\ g[m] = f[m]
        BY <1>1
      <4> QED BY <4>1
    <3> HIDE DEF g
    <3>4. \A k \in 1..(m + 1) : k \in 1..m \/ (k = m + 1 /\ k - 1 = m)
      BY <1>1
    <3> QED BY <3>1, <3>2, <3>3, <3>4
  <2> HIDE DEF g
  <2>5. IsRun(g, m + 1)
    BY <2>3, <2>4
  <2>6. m + 1 \in 0..n
    BY <1>1
  <2> QED BY <2>3, <2>5, <2>6
<1> HIDE DEF S
<1>4. n \in S
  <2>1. \A m \in 0..(n - 1) : m \in S => m + 1 \in S
    BY <1>3
  <2>2. \A m \in 0..n : m \in S
    BY <1>1, <1>2, <2>1, UpTo
  <2> QED BY <1>1, <2>2
<1>5. PICK f \in [0..n -> Shells] : IsRun(f, n)
  BY <1>4 DEF S
<1>6. f = [k \in 0..n |-> IF k = 0 THEN shell ELSE Line(f[k - 1], path, k)]
  <2>1. \A k \in 0..n : f[k] = IF k = 0 THEN shell ELSE Line(f[k - 1], path, k)
    BY <1>1, <1>5
  <2> QED BY <1>5, <2>1
<1>7. After(path) = CHOOSE sh : sh = [k \in 0..n |-> IF k = 0 THEN shell ELSE Line(sh[k - 1], path, k)]
  BY DEF After, n, Lines
<1>8. After(path) = [k \in 0..n |-> IF k = 0 THEN shell ELSE Line(After(path)[k - 1], path, k)]
  BY <1>6, <1>7
<1> DEFINE A == After(path)
<1>9. A = [k \in 0..n |-> IF k = 0 THEN shell ELSE Line(A[k - 1], path, k)]
  BY <1>8
<1> HIDE DEF A
<1>10. \A k \in 0..n : A[k] = IF k = 0 THEN shell ELSE Line(A[k - 1], path, k)
  BY <1>9
<1>11. A[0] = shell /\ \A k \in 1..n : A[k] = Line(A[k - 1], path, k)
  BY <1>1, <1>10
<1>12. \A k \in 0..n : A[k] \in Shells
  <2> DEFINE W == {k \in 0..n : A[k] \in Shells}
  <2>1. 0 \in W
    BY <1>1, <1>11
  <2>2. ASSUME NEW k \in 0..(n - 1), k \in W PROVE k + 1 \in W
    <3>1. k + 1 \in 1..n /\ (k + 1) - 1 = k /\ k + 1 \in 0..n
      BY <1>1
    <3>2. A[k + 1] = Line(A[k], path, k + 1)
      BY <1>11, <3>1
    <3>3. Line(A[k], path, k + 1) \in Shells
      BY <2>2, <3>1, LineStep DEF n
    <3> QED BY <3>1, <3>2, <3>3
  <2> HIDE DEF W
  <2>3. \A k \in 0..n : k \in W
    BY <1>1, <2>1, <2>2, UpTo
  <2> QED BY <2>3 DEF W
<1>13. A \in [0..n -> Shells]
  BY <1>9, <1>12
<1> QED BY <1>11, <1>13 DEF A, n

\* The last of the first m lines that writes c, and what it leaves there.
Writes(path, c, k) == Target(Lines(path)[k]) = c
LastWriter(path, c, k, m) ==
  k \in 1..m /\ Writes(path, c, k) /\ \A j \in (k + 1)..m : ~Writes(path, c, j)
Left(v, path, k) ==
  /\ v.kind # "unset" /\ v.marks # <<>>
  /\ v.marks[Len(v.marks)] = MarkOf(path, k, Lines(path)[k])

LEMMA AssignedMarks ==
  ASSUME NEW old \in Value, NEW plain \in Value, NEW a \in Assignment, NEW m \in Mark
  PROVE  /\ Assigned(old, plain, a, m) \in Value
         /\ Assigned(old, plain, a, m).kind =
              IF a.op = "append" /\ old.kind # "unset" THEN old.kind ELSE a.kind
         /\ Assigned(old, plain, a, m).marks =
              CASE a.op = "set" -> <<m>>
                [] a.op = "append" -> Append(old.marks, m)
                [] OTHER -> Append(plain.marks, m)
<1>1. /\ old.kind \in {"unset", "scalar", "array"} /\ old.marks \in Seq(Mark)
      /\ plain.marks \in Seq(Mark) /\ a.kind \in {"scalar", "array"}
  BY DEF Value, Assignment
<1>2. /\ Append(old.marks, m) \in Seq(Mark) /\ Append(plain.marks, m) \in Seq(Mark)
      /\ <<m>> \in Seq(Mark)
  BY <1>1
<1> QED BY <1>1, <1>2 DEF Assigned, Value

\* A line leaves its own mark last.
LEMMA AssignedLeft ==
  ASSUME Typed, NEW path \in DOMAIN input.tree, NEW k \in 1..Len(Lines(path)),
         NEW old \in Value, NEW plain \in Value
  PROVE  Left(Assigned(old, plain, Lines(path)[k], MarkOf(path, k, Lines(path)[k])), path, k)
<1> DEFINE a == Lines(path)[k]
           m == MarkOf(path, k, a)
           v == Assigned(old, plain, a, m)
<1>1. a \in Assignment /\ m \in Mark
  BY LineFacts
<1> HIDE DEF a, m
<1>2. /\ v.kind = IF a.op = "append" /\ old.kind # "unset" THEN old.kind ELSE a.kind
      /\ v.marks = <<m>> \/ v.marks = Append(old.marks, m) \/ v.marks = Append(plain.marks, m)
  BY <1>1, AssignedMarks
<1>3. old.marks \in Seq(Mark) /\ plain.marks \in Seq(Mark) /\ a.kind # "unset"
  BY <1>1 DEF Value, Assignment
<1> HIDE DEF v
<1>4. v.marks # <<>> /\ v.marks[Len(v.marks)] = m
  <2>1. \A s \in Seq(Mark) : Append(s, m) # <<>> /\ Append(s, m)[Len(Append(s, m))] = m
    BY <1>1
  <2>2. <<m>> # <<>> /\ <<m>>[Len(<<m>>)] = m
    OBVIOUS
  <2> QED BY <1>2, <1>3, <2>1, <2>2
<1>5. v.kind # "unset"
  BY <1>2, <1>3
<1> QED BY <1>4, <1>5 DEF Left, v, a, m

\* A variable keeps its value, or has that of the last line that writes it.
LEMMA SourcedIsLast ==
  ASSUME Typed, NEW path \in DOMAIN input.tree
  PROVE  /\ Sourced(path) \in Shells
         /\ \A c \in Names :
              \/ /\ Sourced(path)[c] = shell[c]
                 /\ \A k \in 1..Len(Lines(path)) : ~Writes(path, c, k)
              \/ \E k \in 1..Len(Lines(path)) :
                    LastWriter(path, c, k, Len(Lines(path))) /\ Left(Sourced(path)[c], path, k)
<1> DEFINE n == Len(Lines(path))
           A == After(path)
<1>1. /\ n \in Nat /\ A \in [0..n -> Shells] /\ A[0] = shell
      /\ \A k \in 1..n : A[k] = Line(A[k - 1], path, k)
  BY AfterLines, LineFacts
<1>2. Sourced(path) = A[n]
  BY DEF Sourced, Lines
<1> HIDE DEF n, A
<1>3. ASSUME NEW c \in Names
      PROVE  \/ A[n][c] = shell[c] /\ \A k \in 1..n : ~Writes(path, c, k)
             \/ \E k \in 1..n : LastWriter(path, c, k, n) /\ Left(A[n][c], path, k)
  <2> DEFINE S == {m \in 0..n :
                     \/ A[m][c] = shell[c] /\ \A k \in 1..m : ~Writes(path, c, k)
                     \/ \E k \in 1..m : LastWriter(path, c, k, m) /\ Left(A[m][c], path, k)}
  <2>1. 0 \in S
    BY <1>1
  <2>2. ASSUME NEW m \in 0..(n - 1), m \in S PROVE m + 1 \in S
    <3>1. m + 1 \in 1..n /\ m + 1 \in 0..n /\ m \in 0..n /\ (m + 1) - 1 = m
      BY <1>1
    <3>2. A[m] \in Shells /\ A[m + 1] = Line(A[m], path, m + 1)
      BY <1>1, <3>1
    <3>3. A[m + 1][c] = IF Writes(path, c, m + 1)
                        THEN Assigned(A[m][c], A[m][Cell(Lines(path)[m + 1].base)], Lines(path)[m + 1],
                                      MarkOf(path, m + 1, Lines(path)[m + 1]))
                        ELSE A[m][c]
      BY <3>1, <3>2, LineStep DEF n, Writes
    <3>4. CASE Writes(path, c, m + 1)
      <4>1. A[m][c] \in Value /\ A[m][Cell(Lines(path)[m + 1].base)] \in Value
        BY <3>1, <3>2, LineFacts DEF n, Shells
      <4>2. Left(A[m + 1][c], path, m + 1)
        BY <3>1, <3>3, <3>4, <4>1, AssignedLeft DEF n
      <4>3. LastWriter(path, c, m + 1, m + 1)
        BY <3>1, <3>4 DEF LastWriter
      <4> QED BY <3>1, <4>2, <4>3
    <3>5. CASE ~Writes(path, c, m + 1)
      <4>1. A[m + 1][c] = A[m][c] /\ \A k \in 1..(m + 1) : k \in 1..m \/ k = m + 1
        BY <3>1, <3>3, <3>5
      <4>2. CASE A[m][c] = shell[c] /\ \A k \in 1..m : ~Writes(path, c, k)
        <5>1. \A k \in 1..(m + 1) : ~Writes(path, c, k)
          BY <3>5, <4>1, <4>2
        <5> QED BY <3>1, <4>1, <4>2, <5>1
      <4>3. CASE \E k \in 1..m : LastWriter(path, c, k, m) /\ Left(A[m][c], path, k)
        <5>1. PICK k \in 1..m : LastWriter(path, c, k, m) /\ Left(A[m][c], path, k)
          BY <4>3
        <5>2. k \in 1..(m + 1) /\ \A j \in (k + 1)..(m + 1) : j \in (k + 1)..m \/ j = m + 1
          BY <3>1
        <5>3. LastWriter(path, c, k, m + 1)
          BY <3>5, <5>1, <5>2 DEF LastWriter
        <5> QED BY <3>1, <4>1, <5>1, <5>2, <5>3
      <4> QED BY <2>2, <4>2, <4>3
    <3> QED BY <3>4, <3>5
  <2> HIDE DEF S
  <2>3. \A m \in 0..(n - 1) : m \in S => m + 1 \in S
    BY <2>2
  <2>4. \A m \in 0..n : m \in S
    BY <1>1, <2>1, <2>3, UpTo
  <2>5. n \in S
    BY <1>1, <2>4
  <2> QED BY <2>5 DEF S
<1>4. A[n] \in Shells
  BY <1>1
<1> QED BY <1>2, <1>3, <1>4 DEF n

\* A variable that only lines of its own type write keeps that type.
LEMMA SourcedKind ==
  ASSUME Typed, NEW path \in DOMAIN input.tree, NEW c \in Names, NEW K \in {"scalar", "array"},
         shell[c].kind \in {"unset", K},
         \A k \in 1..Len(Lines(path)) : Writes(path, c, k) => Lines(path)[k].kind = K
  PROVE  Sourced(path)[c].kind \in {"unset", K}
<1> DEFINE n == Len(Lines(path))
           A == After(path)
           S == {m \in 0..n : A[m][c].kind \in {"unset", K}}
<1>1. /\ n \in Nat /\ A \in [0..n -> Shells] /\ A[0] = shell
      /\ \A k \in 1..n : A[k] = Line(A[k - 1], path, k)
  BY AfterLines, LineFacts
<1>2. Sourced(path) = A[n]
  BY DEF Sourced, Lines
<1> HIDE DEF n, A
<1>3. 0 \in S
  BY <1>1
<1>4. ASSUME NEW m \in 0..(n - 1), m \in S PROVE m + 1 \in S
  <2>1. m + 1 \in 1..n /\ m + 1 \in 0..n /\ m \in 0..n /\ (m + 1) - 1 = m
    BY <1>1
  <2>2. A[m] \in Shells /\ A[m + 1] = Line(A[m], path, m + 1)
    BY <1>1, <2>1
  <2>3. A[m + 1][c] = IF Writes(path, c, m + 1)
                      THEN Assigned(A[m][c], A[m][Cell(Lines(path)[m + 1].base)], Lines(path)[m + 1],
                                    MarkOf(path, m + 1, Lines(path)[m + 1]))
                      ELSE A[m][c]
    BY <2>1, <2>2, LineStep DEF n, Writes
  <2>4. CASE Writes(path, c, m + 1)
    <3>1. /\ A[m][c] \in Value /\ A[m][Cell(Lines(path)[m + 1].base)] \in Value
          /\ Lines(path)[m + 1] \in Assignment
          /\ MarkOf(path, m + 1, Lines(path)[m + 1]) \in Mark
      BY <2>1, <2>2, LineFacts DEF n, Shells
    <3>2. Lines(path)[m + 1].kind = K /\ A[m][c].kind \in {"unset", K}
      BY <1>4, <2>1, <2>4 DEF n
    <3>3. A[m + 1][c].kind \in {A[m][c].kind, Lines(path)[m + 1].kind}
      <4>1. \A old, plain \in Value, a \in Assignment, mark \in Mark :
               Assigned(old, plain, a, mark).kind \in {old.kind, a.kind}
        BY DEF Assigned
      <4>2. A[m + 1][c] = Assigned(A[m][c], A[m][Cell(Lines(path)[m + 1].base)], Lines(path)[m + 1],
                                   MarkOf(path, m + 1, Lines(path)[m + 1]))
        BY <2>3, <2>4
      <4> QED BY <3>1, <4>1, <4>2
    <3> QED BY <2>1, <3>2, <3>3
  <2>5. CASE ~Writes(path, c, m + 1)
    BY <1>4, <2>1, <2>3, <2>5
  <2> QED BY <2>4, <2>5
<1> HIDE DEF S
<1>5. \A m \in 0..(n - 1) : m \in S => m + 1 \in S
  BY <1>4
<1>6. \A m \in 0..n : m \in S
  BY <1>1, <1>3, <1>5, UpTo
<1>7. n \in S
  BY <1>1, <1>6
<1> QED BY <1>2, <1>7 DEF S

\* The marks in a variable are those that were there, and those of the file's lines.
LEMMA SourcedMarks ==
  ASSUME Typed, NEW path \in DOMAIN input.tree, NEW M \in SUBSET Mark,
         \A c \in Names : shell[c].marks \in Seq(M),
         \A k \in 1..Len(Lines(path)) : MarkOf(path, k, Lines(path)[k]) \in M
  PROVE  \A c \in Names : Sourced(path)[c].marks \in Seq(M)
<1> DEFINE n == Len(Lines(path))
           A == After(path)
           S == {m \in 0..n : \A c \in Names : A[m][c].marks \in Seq(M)}
<1>1. /\ n \in Nat /\ A \in [0..n -> Shells] /\ A[0] = shell
      /\ \A k \in 1..n : A[k] = Line(A[k - 1], path, k)
  BY AfterLines, LineFacts
<1>2. Sourced(path) = A[n]
  BY DEF Sourced, Lines
<1> HIDE DEF n, A
<1>3. 0 \in S
  BY <1>1
<1>4. ASSUME NEW m \in 0..(n - 1), m \in S PROVE m + 1 \in S
  <2>1. m + 1 \in 1..n /\ m + 1 \in 0..n /\ m \in 0..n /\ (m + 1) - 1 = m
    BY <1>1
  <2> SUFFICES ASSUME NEW c \in Names PROVE A[m + 1][c].marks \in Seq(M)
    BY <2>1
  <2> DEFINE a == Lines(path)[m + 1]
             mark == MarkOf(path, m + 1, a)
  <2>2. A[m] \in Shells /\ A[m + 1] = Line(A[m], path, m + 1)
    BY <1>1, <2>1
  <2>3. A[m + 1][c] = IF Writes(path, c, m + 1) THEN Assigned(A[m][c], A[m][Cell(a.base)], a, mark)
                      ELSE A[m][c]
    BY <2>1, <2>2, LineStep DEF n, Writes
  <2>4. /\ A[m][c] \in Value /\ A[m][Cell(a.base)] \in Value
        /\ A[m][c].marks \in Seq(M) /\ A[m][Cell(a.base)].marks \in Seq(M)
        /\ a \in Assignment /\ mark \in M
    BY <1>4, <2>1, <2>2, LineFacts DEF n, Shells
  <2> HIDE DEF a, mark
  <2>5. \A old, plain : old.marks \in Seq(M) /\ plain.marks \in Seq(M) =>
           Assigned(old, plain, a, mark).marks \in Seq(M)
    <3> SUFFICES ASSUME NEW old, NEW plain, old.marks \in Seq(M), plain.marks \in Seq(M)
                 PROVE  Assigned(old, plain, a, mark).marks \in Seq(M)
      OBVIOUS
    <3>1. /\ <<mark>> \in Seq(M) /\ Append(old.marks, mark) \in Seq(M)
          /\ Append(plain.marks, mark) \in Seq(M)
      BY <2>4
    <3> QED BY <3>1 DEF Assigned
  <2> QED BY <2>3, <2>4, <2>5
<1> HIDE DEF S
<1>5. \A m \in 0..(n - 1) : m \in S => m + 1 \in S
  BY <1>4
<1>6. \A m \in 0..n : m \in S
  BY <1>1, <1>3, <1>5, UpTo
<1>7. n \in S
  BY <1>1, <1>6
<1> QED BY <1>2, <1>7 DEF S

-----------------------------------------------------------------------------
(* What holds of a shell and its references, when the files F were read.   *)

ArchSuffixes == SuffixNames \ {Plain}
AllLines == UNION {ToSet(Lines(p)) : p \in DOMAIN input.tree}

\* NAME__X has a value if and only if a file gives it one.
Origin(sh, F) ==
  \A b \in Base, s \in ArchSuffixes : sh[<<b, s>>] # Unset <=> \E p \in F : Says(p, b, s) # {}

\* Only scalars are referred to, and only by names that arch_loadvar_inner tries.
RefsOK(sh, r) ==
  \A b \in Base : r[b] # Plain =>
    b \in Exported /\ ARCH \in Arches /\ r[b] \in ToSet(Aliases) /\ sh[<<b, r[b]>>].kind = "scalar"

\* NAME__X has the type that every line about it gives it.
Kinds(sh) ==
  \A l \in AllLines : l.as # Plain /\ sh[<<l.base, l.as>>] # Unset => sh[<<l.base, l.as>>].kind = l.kind

MarksBy(sh, F) == \A c \in Names : sh[c].marks \in Seq({m \in Mark : m.by \in {Lib, Arch} \cup F})

Proper(sh) == \A c \in Names : sh[c].kind = "unset" => sh[c] = Unset

ScalarIn(F, b) == \A p \in F : \A a \in ToSet(Lines(p)) : a.base = b => a.kind = "scalar"
Well(sh, F) ==
  \A b \in Base \ Flags : ScalarIn(F, b) => \A s \in SuffixNames : sh[<<b, s>>].kind \in {"unset", "scalar"}

Data(sh, r, F) ==
  Origin(sh, F) /\ RefsOK(sh, r) /\ Kinds(sh) /\ MarksBy(sh, F) /\ Proper(sh) /\ Well(sh, F)

LEMMA TreeHasOneType ==
  ASSUME input \in Inputs
  PROVE  /\ \A p \in DOMAIN input.tree : ToSet(Lines(p)) \subseteq AllLines
         /\ \A l \in AllLines : l \in Assignment /\ (l.base \in Flags => l.kind = "array")
         /\ \A l, m \in AllLines : l.kind = "scalar" /\ m.kind = "array" /\ m.base = l.base =>
               m.as \notin {Plain, l.as}
<1>1. InputOK(input)
  BY DefinesAssumption DEF DefinesAssumption
<1>2. OneType(input.tree) /\ \A p \in DOMAIN input.tree : Lines(p) \in Seq(Assignment)
  BY <1>1 DEF InputOK, Lines
<1>3. \A p \in DOMAIN input.tree : \A l \in ToSet(Lines(p)) : l \in Assignment
  BY <1>2 DEF ToSet
<1>4. AllLines = UNION {ToSet(input.tree[p].lines) : p \in DOMAIN input.tree}
  BY DEF AllLines, Lines
<1> QED BY <1>2, <1>3, <1>4 DEF OneType, AllLines

\* The names that are tried, and the one that is found.
LEMMA AliasFacts ==
  ASSUME ARCH \in Arches
  PROVE  Aliases \in Seq(ArchSuffixes) /\ Aliases # <<>> /\ ToSet(Aliases) \subseteq ArchSuffixes
<1>1. Groups[ARCH] \in Seq(GroupNames)
  BY DefinesAssumption
<1>2. Arches \subseteq ArchSuffixes /\ GroupNames \subseteq ArchSuffixes
  BY DefinesAssumption DEF ArchSuffixes, SuffixNames
<1>3. <<ARCH>> \in Seq(ArchSuffixes) /\ Groups[ARCH] \in Seq(ArchSuffixes)
  BY <1>1, <1>2
<1>4. Aliases \in Seq(ArchSuffixes) /\ Aliases # <<>>
  BY <1>3 DEF Aliases
<1> QED BY <1>4 DEF ToSet

Hits(sh, b) == {i \in DOMAIN Aliases : sh[<<b, Aliases[i]>>] # Unset}

LEMMA Loaded ==
  ASSUME ARCH \in Arches, NEW sh, NEW b \in Base
  PROVE  /\ LoadedVar(sh, b) =
              IF /\ b \in Exported /\ Hits(sh, b) # {}
                 /\ sh[Cell(b)].kind \in {"unset", sh[<<b, Aliases[Min(Hits(sh, b))]>>].kind}
              THEN Aliases[Min(Hits(sh, b))] ELSE Plain
         /\ Hits(sh, b) # {} =>
              /\ Min(Hits(sh, b)) \in Hits(sh, b) /\ \A i \in Hits(sh, b) : Min(Hits(sh, b)) <= i
              /\ Aliases[Min(Hits(sh, b))] \in ArchSuffixes /\ Aliases[Min(Hits(sh, b))] \in ToSet(Aliases)
<1>1. DOMAIN Aliases \subseteq Nat /\ Aliases \in Seq(ArchSuffixes)
  BY AliasFacts
<1>2. Hits(sh, b) \in SUBSET Nat
  BY <1>1 DEF Hits
<1>3. Hits(sh, b) # {} => Min(Hits(sh, b)) \in Hits(sh, b) /\ \A i \in Hits(sh, b) : Min(Hits(sh, b)) <= i
  BY <1>2, LeastIsMin
<1>4. \A i \in Hits(sh, b) : Aliases[i] \in ArchSuffixes /\ Aliases[i] \in ToSet(Aliases)
  BY <1>1 DEF Hits, ToSet
<1>5. LoadedVar(sh, b) =
        IF /\ b \in Exported /\ Hits(sh, b) # {}
           /\ sh[Cell(b)].kind \in {"unset", sh[<<b, Aliases[Min(Hits(sh, b))]>>].kind}
        THEN Aliases[Min(Hits(sh, b))] ELSE Plain
  BY DEF LoadedVar, Picked, Hits
<1> QED BY <1>3, <1>4, <1>5

-----------------------------------------------------------------------------
(* The types.                                                              *)

ShellOK == shell \in Shells /\ refs \in [Base -> SuffixNames]

TypeInv ==
  /\ TypeOK /\ input \in Inputs
  /\ pc \in Early \cup Late => ARCH \in Arches
  /\ pc \in {"enable"} \cup Early => files = <<>>
  /\ pc \in {"compiler", "arch", "second"} => Len(files) = 1
  /\ pc \in {"check", "ready"} => Len(files) = 2
  /\ ToSet(files) \subseteq DOMAIN input.tree

LEMMA TypedShell == TypeInv => Typed
BY DEF TypeInv, TypeOK, Typed, Shells

LEMMA UnsetIsValue == Unset \in Value
BY DEF Unset, Value

LEMMA ScalarIsValue ==
  ASSUME NEW by \in {Lib, Arch}, NEW prefix \in PrefixNames, NEW on \in BOOLEAN
  PROVE  /\ Word(by, prefix, on) \in Mark
         /\ Scalar(by, prefix, on) \in Value
         /\ [kind |-> "array", marks |-> <<Word(by, prefix, on)>>] \in Value
<1>1. Plain \in SuffixNames
  BY DEF SuffixNames
<1>2. Word(by, prefix, on) \in Mark
  BY <1>1 DEF Word, Mark
<1>3. <<Word(by, prefix, on)>> \in Seq(Mark)
  BY <1>2
<1> QED BY <1>2, <1>3 DEF Scalar, Value

LEMMA CellIsName ==
  ASSUME refs \in [Base -> SuffixNames], NEW b \in Base
  PROVE  Cell(b) \in Names /\ Cell(b)[1] = b /\ Cell(b)[2] = refs[b]
BY DEF Cell, Names

LEMMA BoolIsBoolean == ASSUME NEW b PROVE Bool(b) \in BOOLEAN
BY DEF Bool, IsOn

\* What arch_loadvar_inner makes of a shell.
LEMMA CopiedTypes ==
  ASSUME ARCH \in Arches, ShellOK, NEW sh \in Shells
  PROVE  Copied(sh) \in Shells /\ Referring(sh) \in [Base -> SuffixNames]
<1>1. \A b \in Base : LoadedVar(sh, b) \in SuffixNames
  BY Loaded DEF ArchSuffixes, SuffixNames
<1>2. \A b \in Base : Source(sh, b) \in Names
  BY <1>1 DEF Source, Names
<1>3. \A n \in Names : n[1] \in Base
  BY DEF Names
<1>4. Copied(sh) \in Shells
  BY <1>2, <1>3 DEF Copied, Shells
<1> QED BY <1>1, <1>4 DEF Referring, ShellOK

LEMMA TypeInit == Init => TypeInv
<1> SUFFICES ASSUME Init PROVE TypeInv
  OBVIOUS
<1>1. input \in Inputs /\ InputOK(input)
  BY DefinesAssumption DEF Init, DefinesAssumption
<1>2. input.arch \in Arches \cup {None} /\ input.stage \in Stages
  BY <1>1 DEF InputOK
<1>3. /\ [n \in Names |-> Unset] \in [Names -> Value]
      /\ [b \in Base |-> Plain] \in [Base -> SuffixNames]
  BY UnsetIsValue DEF SuffixNames
<1>4. NoAllow \in Allow /\ "/usr" \in PrefixNames /\ NoCompiler \in (Hosts \cup {None}) \X BOOLEAN
  BY DEF NoAllow, Allow, PrefixNames, NoCompiler
<1>5. <<>> \in Seq(Paths) /\ ToSet(<<>>) = {}
  BY DEF ToSet
<1>6. TypeOK
  BY <1>2, <1>3, <1>4, <1>5 DEF Init, TypeOK
<1> QED BY <1>1, <1>5, <1>6 DEF Init, TypeInv, Early, Late

\* What a reading leaves, if the invariants let it start.
LEMMA ReadingTypes ==
  ASSUME TypeInv, ARCH \in Arches, NEW next \in {"compiler", "check"}, LoadDefines(next),
         Len(files) = IF next = "compiler" THEN 0 ELSE 1
  PROVE  TypeInv'
<1>0. Typed /\ ShellOK /\ TypeOK
  BY TypedShell DEF TypeInv, TypeOK, ShellOK, Shells
<1>1. CASE Found = {} /\ Die /\ UNCHANGED <<input, arches, ABSTAGE2, PREFIX, CC, shell, refs, guards, files, archHost>>
  BY <1>1 DEF TypeInv, TypeOK, Die, arches, guards, Early, Late
<1>2. CASE ~(Found = {} /\ Die)
  <2>1. PICK path \in Found :
          /\ ABHOST' = IF input.tree[path].ABHOST = None THEN ABHOST ELSE input.tree[path].ABHOST
          /\ ALLOW_ARCH' = IF input.tree[path].allow = NoAllow THEN ALLOW_ARCH ELSE input.tree[path].allow
          /\ FAIL_ARCH' = IF input.tree[path].fail = {} THEN FAIL_ARCH ELSE input.tree[path].fail
          /\ \/ shell' = Copied(Sourced(path)) /\ refs' = Referring(Sourced(path)) /\ pc' = next
             \/ shell' = Sourced(path) /\ pc' = "dead" /\ refs' = refs
          /\ files' = Append(files, path)
          /\ UNCHANGED <<input, ARCH, ABBUILD, ABSTAGE2, PREFIX, CC, archHost>>
    BY <1>2 DEF LoadDefines, Die
  <2>2. path \in DOMAIN input.tree
    BY FoundExists
  <2>3. /\ input.host \in Hosts \cup {None} /\ input.tree[path].ABHOST \in {None, input.host}
        /\ input.tree[path].allow \in Allow /\ input.tree[path].fail \subseteq Hosts /\ path \in Paths
    BY <2>2, InputFacts DEF TypeInv
  <2>4. Sourced(path) \in Shells
    BY <1>0, <2>2, SourcedIsLast
  <2>5. shell' \in Shells /\ refs' \in [Base -> SuffixNames]
    BY <1>0, <2>1, <2>4, CopiedTypes DEF ShellOK
  <2>6. /\ files \in Seq(Paths) /\ ToSet(files) \subseteq DOMAIN input.tree
    BY DEF TypeInv, TypeOK
  <2>7. /\ files' \in Seq(Paths) /\ Len(files') = Len(files) + 1
        /\ ToSet(files') = ToSet(files) \cup {path}
    BY <2>1, <2>3, <2>6 DEF ToSet
  <2>8. /\ ABHOST' \in Hosts \cup {None} /\ ALLOW_ARCH' \in Allow /\ FAIL_ARCH' \subseteq Hosts
    BY <1>0, <2>1, <2>3 DEF TypeOK
  <2>9. pc' \in {next, "dead"}
    BY <2>1
  <2>10. TypeOK'
    BY <1>0, <2>1, <2>5, <2>7, <2>8, <2>9 DEF TypeOK, Shells
  <2>11. pc' = "compiler" => Len(files') = 1
    BY <2>7, <2>9
  <2>12. pc' = "check" => Len(files') = 2
    BY <2>7, <2>9
  <2>13. input' \in Inputs /\ ToSet(files') \subseteq DOMAIN input'.tree /\ ARCH' \in Arches
    BY <2>1, <2>2, <2>6, <2>7 DEF TypeInv
  <2> QED BY <2>9, <2>10, <2>11, <2>12, <2>13 DEF TypeInv, Early, Late
<1>3. LoadDefines(next) =>
        \/ Found = {} /\ Die /\ UNCHANGED <<input, arches, ABSTAGE2, PREFIX, CC, shell, refs, guards, files, archHost>>
        \/ Found # {}
  BY DEF LoadDefines
<1> QED BY <1>1, <1>2, <1>3

LEMMA TypeStep == TypeInv /\ [Next]_vars => TypeInv'
<1> SUFFICES ASSUME TypeInv, [Next]_vars PROVE TypeInv'
  OBVIOUS
<1>0. TypeOK /\ input \in Inputs /\ InputOK(input)
  BY DefinesAssumption DEF TypeInv, DefinesAssumption
<1>1. CASE UNCHANGED vars
  BY <1>1 DEF vars, TypeInv, TypeOK, arches, guards
<1>2. CASE Enable
  <2>1. ARCH' \in Arches /\ ABHOST' \in Arches /\ ABBUILD' \in Arches
    BY <1>0, <1>2, DefinesAssumption DEF Enable, SetArchVariables, TypeOK
  <2> QED BY <1>2, <2>1 DEF Enable, TypeInv, TypeOK, guards, Early, Late, Hosts
<1>3. CASE Arguments
  <2>1. \/ UNCHANGED arches
        \/ ARCH' \in Arches /\ ABHOST' \in Arches /\ ABBUILD' \in Arches
    <3>1. input.custom \in Arches \cup {None} /\ ARCH \in Arches \cup {None} /\ Native \in Arches
      BY <1>0, DefinesAssumption DEF InputOK, TypeOK
    <3>2. \/ UNCHANGED arches
          \/ input.custom # None /\ SetArchVariables(input.custom)
      BY <1>3 DEF Arguments
    <3>3. ASSUME NEW a \in Arches, SetArchVariables(a)
          PROVE  ARCH' \in Arches /\ ABHOST' \in Arches /\ ABBUILD' \in Arches
      BY <3>1, <3>3 DEF SetArchVariables
    <3>4. CASE input.custom # None /\ SetArchVariables(input.custom)
      <4>1. input.custom \in Arches
        BY <3>1, <3>4
      <4> QED BY <3>3, <3>4, <4>1
    <3> QED BY <3>2, <3>4
  <2>2. ARCH' \in Arches
    BY <1>3, <2>1 DEF Arguments, arches, TypeInv, Early
  <2>3. ABHOST' \in Hosts \cup {None} /\ ABBUILD' \in Arches \cup {None}
    BY <1>0, <2>1 DEF arches, TypeOK, Hosts
  <2>4. /\ pc = "arguments" /\ pc' = "defaults"
        /\ UNCHANGED <<input, ABSTAGE2, PREFIX, CC, shell, refs, guards, files, archHost>>
    BY <1>3 DEF Arguments
  <2> QED BY <2>2, <2>3, <2>4 DEF TypeInv, TypeOK, guards, Early, Late
<1>4. CASE LoadDefaults
  <2>1. ASSUME NEW on \in BOOLEAN PROVE Scalar(Lib, "/usr", on) \in Value
    BY ScalarIsValue DEF PrefixNames
  <2>2. ASSUME NEW b \in Base
        PROVE  (Defaults[b] = "on" /\ ~(b = "ABSPLITDBG" /\ ShellStage2)) \in BOOLEAN
    OBVIOUS
  <2>3. \A n \in Names : n[1] \in Base /\ shell[n] \in Value
    BY <1>0 DEF Names, TypeOK
  <2>4. shell' = [n \in Names |->
          IF n[2] # Plain \/ Defaults[n[1]] = "unset" THEN shell[n]
          ELSE Scalar(Lib, "/usr", Defaults[n[1]] = "on" /\ ~(n[1] = "ABSPLITDBG" /\ ShellStage2))]
    BY <1>4 DEF LoadDefaults
  <2>5. shell' \in [Names -> Value]
    BY <2>1, <2>2, <2>3, <2>4
  <2>6. /\ pc = "defaults" /\ pc' = "modifiers" /\ PREFIX' \in PrefixNames
        /\ UNCHANGED <<input, arches, ABSTAGE2, CC, refs, guards, files, archHost>>
    BY <1>4 DEF LoadDefaults, PrefixNames
  <2> QED BY <2>5, <2>6 DEF TypeInv, TypeOK, arches, guards, Early, Late
<1>5. CASE ParseModifiers
  BY <1>5 DEF ParseModifiers, TypeInv, TypeOK, arches, guards, Early, Late, Stages
<1>6. CASE FirstDefines
  <2>1. pc = "first" /\ ARCH \in Arches /\ files = <<>> /\ LoadDefines("compiler")
    BY <1>6 DEF FirstDefines, TypeInv, Early
  <2> QED BY <2>1, ReadingTypes
<1>7. CASE ChooseCompiler
  <2>1. <<ABHOST, Bool("USECLANG")>> \in (Hosts \cup {None}) \X BOOLEAN
    BY <1>0, BoolIsBoolean DEF TypeOK
  <2>2. CC' = CC \/ CC' = <<ABHOST, Bool("USECLANG")>>
    BY <1>7 DEF ChooseCompiler
  <2>3. /\ pc = "compiler" /\ pc' \in {"arch", "dead"}
        /\ UNCHANGED <<input, arches, ABSTAGE2, PREFIX, shell, refs, guards, files, archHost>>
    BY <1>7 DEF ChooseCompiler
  <2> QED BY <2>1, <2>2, <2>3 DEF TypeInv, TypeOK, arches, guards, Early, Late
<1>8. CASE LoadArch
  <2>1. PrefixOf(ABHOST) \in PrefixNames
    BY DEF PrefixOf, PrefixNames
  <2>2. \A v : FlagsOf(v) \in Value
    BY <2>1, ScalarIsValue DEF FlagsOf
  <2>3. Scalar(Arch, PrefixOf(ABHOST), TRUE) \in Value
    BY <2>1, ScalarIsValue
  <2>4. \A n \in Names :
           (IF n # Cell(n[1]) THEN shell[n]
            ELSE IF n[1] \in Flags THEN FlagsOf(shell[n])
            ELSE IF n[1] \in ArchSets[ABHOST] THEN Scalar(Arch, PrefixOf(ABHOST), TRUE)
            ELSE shell[n]) \in Value
    BY <1>0, <2>2, <2>3 DEF TypeOK
  <2>6. shell' \in [Names -> Value] /\ PREFIX' \in PrefixNames
    BY <1>0, <1>8, <2>1, <2>4 DEF LoadArch, TypeOK
  <2>5. /\ pc = "arch" /\ pc' \in {"second", "dead"} /\ archHost' = ABHOST
        /\ UNCHANGED <<input, arches, ABSTAGE2, CC, refs, guards, files>>
    BY <1>8 DEF LoadArch, Die
  <2> QED BY <2>5, <2>6 DEF TypeInv, TypeOK, arches, guards, Early, Late
<1>9. CASE SecondDefines
  <2>1. pc = "second" /\ ARCH \in Arches /\ Len(files) = 1 /\ LoadDefines("check")
    BY <1>9 DEF SecondDefines, TypeInv, Late
  <2> QED BY <2>1, ReadingTypes
<1>10. CASE Check
  <2>1. Scalar(Lib, PREFIX, FALSE) \in Value
    BY <1>0, ScalarIsValue DEF TypeOK
  <2>2. shell' \in [Names -> Value]
    BY <1>0, <1>10, <2>1 DEF Check, TypeOK
  <2>3. /\ pc = "check" /\ pc' \in {"ready", "dead"}
        /\ UNCHANGED <<input, arches, ABSTAGE2, PREFIX, CC, refs, guards, files, archHost>>
    BY <1>10 DEF Check
  <2> QED BY <2>2, <2>3 DEF TypeInv, TypeOK, arches, guards, Early, Late
<1>11. CASE Ended
  BY <1>1, <1>11 DEF Ended
<1> QED
  BY <1>1, <1>2, <1>3, <1>4, <1>5, <1>6, <1>7, <1>8, <1>9, <1>10, <1>11 DEF Next

-----------------------------------------------------------------------------
(* What a reading keeps.                                                   *)

\* A line writes NAME__X by that name, or as a NAME that refers to it.
LEMMA WritesOf ==
  ASSUME Typed, NEW path \in DOMAIN input.tree, NEW b \in Base, NEW s \in SuffixNames,
         NEW k \in 1..Len(Lines(path))
  PROVE  /\ Lines(path)[k] \in Assignment /\ Lines(path)[k] \in AllLines
         /\ Lines(path)[k] \in ToSet(Lines(path))
         /\ Writes(path, <<b, s>>, k) <=>
              /\ Lines(path)[k].base = b
              /\ \/ s # Plain /\ Lines(path)[k].as = s
                 \/ Lines(path)[k].as = Plain /\ refs[b] = s
<1>1. Lines(path) \in Seq(Assignment) /\ Lines(path)[k] \in Assignment
  BY LineFacts
<1>2. Lines(path)[k] \in ToSet(Lines(path))
  BY <1>1 DEF ToSet
<1>3. Lines(path)[k] \in AllLines
  BY <1>2 DEF AllLines
<1> QED BY <1>1, <1>2, <1>3 DEF Writes, Target, Cell

LEMMA SaysLines ==
  ASSUME Typed, NEW path \in DOMAIN input.tree, NEW b \in Base, NEW s \in SuffixNames
  PROVE  Says(path, b, s) = {k \in 1..Len(Lines(path)) : Lines(path)[k].base = b /\ Lines(path)[k].as = s}
<1>1. DOMAIN Lines(path) = 1..Len(Lines(path))
  BY LineFacts
<1> QED BY <1>1 DEF Says, Lines

\* Whichever lines write NAME__X, they give it the type that its own line gives.
LEMMA WritersKind ==
  ASSUME Typed, RefsOK(shell, refs), Kinds(shell), Proper(shell),
         NEW path \in DOMAIN input.tree, NEW l \in AllLines, l.as # Plain,
         NEW k \in 1..Len(Lines(path)), Writes(path, <<l.base, l.as>>, k)
  PROVE  Lines(path)[k].kind = l.kind
<1> DEFINE a == Lines(path)[k]
<1>1. l \in Assignment /\ l.base \in Base /\ l.as \in SuffixNames
  BY TreeHasOneType DEF Typed, Assignment
<1>2. /\ a \in Assignment /\ a \in AllLines /\ a.base = l.base
      /\ a.as = l.as \/ (a.as = Plain /\ refs[l.base] = l.as)
  BY <1>1, WritesOf
<1>3. a.kind \in {"scalar", "array"} /\ l.kind \in {"scalar", "array"}
  BY <1>1, <1>2 DEF Assignment
<1>4. /\ a.kind = "scalar" /\ l.kind = "array" => l.as \notin {Plain, a.as}
      /\ l.kind = "scalar" /\ a.kind = "array" => a.as \notin {Plain, l.as}
  BY <1>2, TreeHasOneType DEF Typed
<1> HIDE DEF a
<1>5. CASE a.as = l.as
  BY <1>3, <1>4, <1>5 DEF a
<1>6. CASE a.as = Plain /\ refs[l.base] = l.as
  <2>1. shell[<<l.base, l.as>>].kind = "scalar"
    BY <1>1, <1>6 DEF RefsOK
  <2>2. shell[<<l.base, l.as>>] # Unset
    BY <2>1 DEF Unset
  <2>3. l.kind = "scalar"
    BY <2>1, <2>2 DEF Kinds
  <2> QED BY <1>3, <1>4, <1>6, <2>3 DEF a
<1> QED BY <1>2, <1>5, <1>6

\* After its lines, before arch_loaddefines looks for the specific variables.
LEMMA SourcedKeeps ==
  ASSUME Typed, NEW F \in SUBSET (DOMAIN input.tree), Data(shell, refs, F),
         NEW path \in DOMAIN input.tree
  PROVE  Data(Sourced(path), refs, F \cup {path})
<1> DEFINE n == Len(Lines(path))
           sh == Sourced(path)
<1>0. Origin(shell, F) /\ RefsOK(shell, refs) /\ Kinds(shell) /\ MarksBy(shell, F) /\ Proper(shell) /\ Well(shell, F)
  BY DEF Data
<1>1. /\ sh \in Shells
      /\ \A c \in Names :
           \/ sh[c] = shell[c] /\ \A k \in 1..n : ~Writes(path, c, k)
           \/ \E k \in 1..n : LastWriter(path, c, k, n) /\ Left(sh[c], path, k)
  BY SourcedIsLast
<1> HIDE DEF n, sh
<1>2. Proper(sh)
  BY <1>0, <1>1 DEF Proper, Left
<1>3. \A v, k : Left(v, path, k) => v # Unset
  BY DEF Left, Unset
<1>4. ASSUME NEW b \in Base, NEW s \in ArchSuffixes
      PROVE  sh[<<b, s>>] # Unset <=> \E p \in F \cup {path} : Says(p, b, s) # {}
  <2>1. <<b, s>> \in Names /\ s \in SuffixNames /\ s # Plain
    BY DEF Names, ArchSuffixes
  <2>2. ASSUME NEW k \in 1..n, Writes(path, <<b, s>>, k)
        PROVE  \E p \in F \cup {path} : Says(p, b, s) # {}
    <3>1. /\ Lines(path)[k].base = b
          /\ Lines(path)[k].as = s \/ (Lines(path)[k].as = Plain /\ refs[b] = s)
      BY <2>1, <2>2, WritesOf DEF n
    <3>2. CASE Lines(path)[k].as = s
      <4>1. k \in Says(path, b, s)
        BY <2>1, <3>1, <3>2, SaysLines DEF n
      <4> QED BY <4>1
    <3>3. CASE refs[b] = s
      <4>1. shell[<<b, s>>].kind = "scalar"
        BY <1>0, <2>1, <3>3 DEF RefsOK
      <4>2. shell[<<b, s>>] # Unset
        BY <4>1 DEF Unset
      <4> QED BY <1>0, <4>2 DEF Origin
    <3> QED BY <3>1, <3>2, <3>3
  <2>3. ASSUME Says(path, b, s) # {} PROVE sh[<<b, s>>] # Unset
    <3>1. PICK k \in 1..n : Lines(path)[k].base = b /\ Lines(path)[k].as = s
      BY <2>1, <2>3, SaysLines DEF n
    <3>2. Writes(path, <<b, s>>, k)
      BY <2>1, <3>1, WritesOf DEF n
    <3> QED BY <1>1, <1>3, <2>1, <3>2
  <2>4. CASE sh[<<b, s>>] = shell[<<b, s>>] /\ \A k \in 1..n : ~Writes(path, <<b, s>>, k)
    <3>1. Says(path, b, s) = {}
      <4>1. \A k \in 1..n : ~(Lines(path)[k].base = b /\ Lines(path)[k].as = s)
        BY <2>1, <2>4, WritesOf DEF n
      <4> QED BY <2>1, <4>1, SaysLines DEF n
    <3> QED BY <1>0, <2>4, <3>1 DEF Origin
  <2>5. CASE \E k \in 1..n : LastWriter(path, <<b, s>>, k, n) /\ Left(sh[<<b, s>>], path, k)
    <3>1. sh[<<b, s>>] # Unset /\ \E k \in 1..n : Writes(path, <<b, s>>, k)
      BY <1>3, <2>5 DEF LastWriter
    <3> QED BY <2>2, <3>1
  <2> QED BY <1>1, <2>1, <2>4, <2>5
<1>5. Origin(sh, F \cup {path})
  BY <1>4 DEF Origin
<1>6. ASSUME NEW l \in AllLines, l.as # Plain, sh[<<l.base, l.as>>] # Unset
      PROVE  sh[<<l.base, l.as>>].kind = l.kind
  <2>1. <<l.base, l.as>> \in Names /\ l.kind \in {"scalar", "array"}
    BY TreeHasOneType DEF Typed, Assignment, Names
  <2>2. shell[<<l.base, l.as>>].kind \in {"unset", l.kind}
    BY <1>0, <1>6 DEF Kinds, Unset
  <2>3. \A k \in 1..n : Writes(path, <<l.base, l.as>>, k) => Lines(path)[k].kind = l.kind
    BY <1>0, <1>6, WritersKind DEF n
  <2>4. sh[<<l.base, l.as>>].kind \in {"unset", l.kind}
    BY <2>1, <2>2, <2>3, SourcedKind DEF n, sh
  <2> QED BY <1>2, <1>6, <2>1, <2>4 DEF Proper
<1>7. Kinds(sh)
  BY <1>6 DEF Kinds
<1>8. ASSUME NEW b \in Base, refs[b] # Plain PROVE sh[<<b, refs[b]>>].kind = "scalar"
  <2>1. refs[b] \in ArchSuffixes /\ <<b, refs[b]>> \in Names
    BY <1>8 DEF Typed, ArchSuffixes, Names
  <2>2. shell[<<b, refs[b]>>].kind = "scalar" /\ shell[<<b, refs[b]>>] # Unset
    BY <1>0, <1>8 DEF RefsOK, Unset
  <2>3. PICK p \in F : Says(p, b, refs[b]) # {}
    BY <1>0, <2>1, <2>2 DEF Origin
  <2>4. PICK k \in 1..Len(Lines(p)) : Lines(p)[k].base = b /\ Lines(p)[k].as = refs[b]
    BY <2>1, <2>3, SaysLines DEF ArchSuffixes
  <2>5. Lines(p)[k] \in AllLines
    <3>1. p \in DOMAIN input.tree /\ refs[b] \in SuffixNames
      BY <2>1 DEF ArchSuffixes
    <3> HIDE DEF n, sh
    <3> QED BY <2>4, <3>1, WritesOf
  <2>6. shell[<<b, refs[b]>>].kind = Lines(p)[k].kind
    BY <1>0, <1>8, <2>2, <2>4, <2>5 DEF Kinds
  <2>7. sh[<<b, refs[b]>>] # Unset
    BY <1>5, <2>1, <2>3 DEF Origin
  <2> QED BY <1>7, <1>8, <2>2, <2>4, <2>5, <2>6, <2>7 DEF Kinds
<1>9. RefsOK(sh, refs)
  BY <1>0, <1>8 DEF RefsOK
<1>10. MarksBy(sh, F \cup {path})
  <2> DEFINE M == {m \in Mark : m.by \in {Lib, Arch} \cup (F \cup {path})}
             M0 == {m \in Mark : m.by \in {Lib, Arch} \cup F}
  <2>1. M \in SUBSET Mark /\ M0 \subseteq M
    OBVIOUS
  <2>2. \A k \in 1..n : MarkOf(path, k, Lines(path)[k]) \in M
    <3>1. \A k \in 1..n : MarkOf(path, k, Lines(path)[k]) \in Mark
      BY LineFacts DEF n
    <3> QED BY <3>1 DEF MarkOf
  <2>3. \A c \in Names : shell[c].marks \in Seq(M0)
    BY <1>0 DEF MarksBy
  <2> HIDE DEF M, M0
  <2>4. \A c \in Names : shell[c].marks \in Seq(M)
    <3>1. \A q \in Seq(M0) : q \in Seq(M)
      BY <2>1
    <3> QED BY <2>3, <3>1
  <2>5. \A c \in Names : sh[c].marks \in Seq(M)
    BY <2>1, <2>2, <2>4, SourcedMarks DEF sh, n
  <2> QED BY <2>5 DEF M, MarksBy
<1>11. ASSUME NEW b \in Base \ Flags, ScalarIn(F \cup {path}, b), NEW s \in SuffixNames
       PROVE  sh[<<b, s>>].kind \in {"unset", "scalar"}
  <2>1. <<b, s>> \in Names
    BY DEF Names
  <2>2. shell[<<b, s>>].kind \in {"unset", "scalar"}
    BY <1>0, <1>11 DEF Well, ScalarIn
  <2>3. \A k \in 1..n : Writes(path, <<b, s>>, k) => Lines(path)[k].kind = "scalar"
    BY <1>11, WritesOf DEF n, ScalarIn
  <2> QED BY <2>1, <2>2, <2>3, SourcedKind DEF n, sh
<1>12. Well(sh, F \cup {path})
  BY <1>11 DEF Well
<1> QED BY <1>2, <1>5, <1>7, <1>9, <1>10, <1>12 DEF Data, sh

\* After arch_loadvar_inner: only a NAME itself is copied to.
LEMMA CopiedKeeps ==
  ASSUME ARCH \in Arches, input \in Inputs, refs \in [Base -> SuffixNames],
         NEW sh \in Shells, NEW F, Data(sh, refs, F)
  PROVE  /\ Data(Copied(sh), Referring(sh), F)
         /\ \A b \in Base, s \in ArchSuffixes : Copied(sh)[<<b, s>>] = sh[<<b, s>>]
         /\ \A b \in Base : Takes(sh, b, "array") => refs[b] = Plain
<1>0. Origin(sh, F) /\ RefsOK(sh, refs) /\ Kinds(sh) /\ MarksBy(sh, F) /\ Proper(sh) /\ Well(sh, F)
  BY DEF Data
<1> DEFINE cp == Copied(sh)
           rf == Referring(sh)
<1>1. ASSUME NEW b \in Base, Takes(sh, b, "array") PROVE refs[b] = Plain
  <2> SUFFICES ASSUME refs[b] # Plain PROVE FALSE
    OBVIOUS
  <2>1. sh[Cell(b)].kind = "scalar"
    BY <1>0 DEF RefsOK, Cell
  <2>2. LoadedVar(sh, b) # Plain /\ sh[<<b, LoadedVar(sh, b)>>].kind = "array"
    BY <1>1 DEF Takes, Source
  <2>3. sh[Cell(b)].kind \in {"unset", sh[<<b, LoadedVar(sh, b)>>].kind}
    BY <2>2, Loaded
  <2> QED BY <2>1, <2>2, <2>3
<1>2. ASSUME NEW c \in Names
      PROVE  \/ cp[c] = sh[c]
             \/ /\ c = <<c[1], Plain>> /\ Takes(sh, c[1], "array")
                /\ cp[c] = sh[Source(sh, c[1])]
  <2>1. c[1] \in Base /\ cp[c] = IF c = Cell(c[1]) /\ Takes(sh, c[1], "array")
                                  THEN sh[Source(sh, c[1])] ELSE sh[c]
    BY DEF Names, Copied
  <2> QED BY <1>1, <2>1 DEF Cell
<1>3. ASSUME NEW b \in Base, NEW s \in ArchSuffixes PROVE cp[<<b, s>>] = sh[<<b, s>>]
  <2>1. <<b, s>> \in Names /\ s # Plain
    BY DEF Names, ArchSuffixes
  <2> HIDE DEF cp
  <2> QED BY <1>2, <2>1
<1>4. ASSUME NEW b \in Base, Takes(sh, b, "array") \/ Takes(sh, b, "scalar")
      PROVE  /\ Source(sh, b) \in Names /\ LoadedVar(sh, b) \in ArchSuffixes /\ b \in Exported
             /\ LoadedVar(sh, b) \in ToSet(Aliases) /\ sh[Source(sh, b)] # Unset
  <2>1. LoadedVar(sh, b) # Plain
    BY <1>4 DEF Takes
  <2>2. sh[Source(sh, b)] # Unset
    BY <1>4 DEF Takes, Unset
  <2>3. LoadedVar(sh, b) \in ArchSuffixes /\ b \in Exported /\ LoadedVar(sh, b) \in ToSet(Aliases)
    BY <2>1, Loaded
  <2> QED BY <2>2, <2>3 DEF Source, Names, ArchSuffixes
<1>5. \A c \in Names : \E d \in Names : cp[c] = sh[d] /\ d[1] = c[1]
  <2> SUFFICES ASSUME NEW c \in Names PROVE \E d \in Names : cp[c] = sh[d] /\ d[1] = c[1]
    OBVIOUS
  <2>1. c[1] \in Base /\ Source(sh, c[1])[1] = c[1]
    BY DEF Names, Source
  <2> HIDE DEF cp
  <2> QED BY <1>2, <1>4, <2>1
<1>6. Origin(cp, F)
  BY <1>0, <1>3 DEF Origin
<1>7. Kinds(cp)
  <2> SUFFICES ASSUME NEW l \in AllLines, l.as # Plain, cp[<<l.base, l.as>>] # Unset,
                      l.base \in Base, l.as \in SuffixNames
               PROVE  cp[<<l.base, l.as>>].kind = l.kind
    BY TreeHasOneType DEF Kinds, Assignment
  <2>1. cp[<<l.base, l.as>>] = sh[<<l.base, l.as>>]
    BY <1>3 DEF ArchSuffixes
  <2> HIDE DEF cp
  <2> QED BY <1>0, <2>1 DEF Kinds
<1>8. MarksBy(cp, F) /\ Proper(cp)
  <2> HIDE DEF cp
  <2>1. MarksBy(cp, F)
    BY <1>0, <1>5 DEF MarksBy
  <2>2. Proper(cp)
    BY <1>0, <1>5 DEF Proper
  <2> QED BY <2>1, <2>2
<1>9. Well(cp, F)
  <2> SUFFICES ASSUME NEW b \in Base \ Flags, ScalarIn(F, b), NEW s \in SuffixNames
               PROVE  cp[<<b, s>>].kind \in {"unset", "scalar"}
    BY DEF Well
  <2>1. <<b, s>> \in Names /\ \A d \in Names : d[1] = b => d = <<b, d[2]>> /\ d[2] \in SuffixNames
    BY DEF Names
  <2> HIDE DEF cp
  <2>2. PICK d \in Names : cp[<<b, s>>] = sh[d] /\ d[1] = b
    BY <1>5, <2>1
  <2> QED BY <1>0, <2>1, <2>2 DEF Well
<1>10. RefsOK(cp, rf)
  <2> SUFFICES ASSUME NEW b \in Base, rf[b] # Plain
               PROVE  b \in Exported /\ ARCH \in Arches /\ rf[b] \in ToSet(Aliases) /\ cp[<<b, rf[b]>>].kind = "scalar"
    BY DEF RefsOK
  <2>1. rf[b] = IF Takes(sh, b, "scalar") THEN LoadedVar(sh, b) ELSE refs[b]
    BY DEF Referring
  <2> HIDE DEF cp, rf
  <2>2. CASE Takes(sh, b, "scalar")
    <3>1. sh[<<b, rf[b]>>].kind = "scalar"
      BY <2>1, <2>2 DEF Takes, Source
    <3> QED BY <1>3, <1>4, <2>1, <2>2, <3>1
  <2>3. CASE ~Takes(sh, b, "scalar")
    <3>1. rf[b] = refs[b] /\ rf[b] \in ArchSuffixes
      BY <2>1, <2>3 DEF ArchSuffixes
    <3> QED BY <1>0, <1>3, <3>1 DEF RefsOK
  <2> QED BY <2>2, <2>3
<1> HIDE DEF cp, rf
<1>11. Data(cp, rf, F)
  BY <1>6, <1>7, <1>8, <1>9, <1>10 DEF Data
<1> QED BY <1>1, <1>3, <1>11 DEF cp, rf

-----------------------------------------------------------------------------
(* The data up to the second reading.                                      *)

Before == {"enable"} \cup Early \cup {"compiler", "arch", "second"}

DataInv == pc \in Before => Data(shell, refs, ToSet(files))

\* A copy is of the same name.
LEMMA CopiedFrom ==
  ASSUME ARCH \in Arches, NEW sh, NEW b \in Base, NEW s \in SuffixNames
  PROVE  \E t \in SuffixNames : Copied(sh)[<<b, s>>] = sh[<<b, t>>]
<1>1. <<b, s>> \in Names
  BY DEF Names
<1>2. LoadedVar(sh, b) \in SuffixNames
  BY Loaded DEF ArchSuffixes, SuffixNames
<1>3. Copied(sh)[<<b, s>>] \in {sh[<<b, s>>], sh[Source(sh, b)]}
  BY <1>1 DEF Copied
<1> QED BY <1>2, <1>3 DEF Source

\* Nothing is specific, and nothing refers, before a file was read.
LEMMA NothingRead ==
  ASSUME refs \in [Base -> SuffixNames], Data(shell, refs, {})
  PROVE  /\ \A b \in Base : refs[b] = Plain
         /\ \A b \in Base, s \in ArchSuffixes : shell[<<b, s>>] = Unset
<1>1. \A b \in Base, s \in ArchSuffixes : shell[<<b, s>>] = Unset
  BY DEF Data, Origin
<1>2. ASSUME NEW b \in Base, refs[b] # Plain PROVE FALSE
  <2>1. shell[<<b, refs[b]>>].kind = "scalar" /\ refs[b] \in ArchSuffixes
    BY <1>2 DEF Data, RefsOK, ArchSuffixes
  <2> QED BY <1>1, <2>1 DEF Unset
<1> QED BY <1>1, <1>2

\* An array of default-flags.sh is never a reference.
LEMMA FlagsPlain ==
  ASSUME Typed, NEW F \in SUBSET (DOMAIN input.tree), NEW sh, NEW r \in [Base -> SuffixNames],
         Data(sh, r, F), NEW b \in Flags
  PROVE  r[b] = Plain
<1> SUFFICES ASSUME r[b] # Plain PROVE FALSE
  OBVIOUS
<1>1. b \in Base /\ r[b] \in ArchSuffixes /\ r[b] \in SuffixNames
  BY DefinesAssumption DEF ArchSuffixes
<1>2. sh[<<b, r[b]>>].kind = "scalar" /\ sh[<<b, r[b]>>] # Unset
  BY <1>1 DEF Data, RefsOK, Unset
<1>3. PICK p \in F : Says(p, b, r[b]) # {}
  BY <1>1, <1>2 DEF Data, Origin
<1>4. PICK k \in 1..Len(Lines(p)) : Lines(p)[k].base = b /\ Lines(p)[k].as = r[b]
  BY <1>1, <1>3, SaysLines
<1>5. Lines(p)[k] \in AllLines
  BY <1>1, <1>4, WritesOf
<1>6. Lines(p)[k].kind = "array"
  BY <1>4, <1>5, TreeHasOneType DEF Typed
<1>7. Lines(p)[k].as # Plain
  BY <1>4
<1> QED BY <1>2, <1>4, <1>5, <1>6, <1>7 DEF Data, Kinds

LEMMA DataSame ==
  ASSUME UNCHANGED <<input, ARCH>>, Data(shell', refs', ToSet(files'))
  PROVE  Data(shell, refs, ToSet(files))'
<1>1. /\ Origin(shell', ToSet(files')) /\ RefsOK(shell', refs') /\ Kinds(shell')
      /\ MarksBy(shell', ToSet(files')) /\ Proper(shell') /\ Well(shell', ToSet(files'))
  BY DEF Data
<1>2. Origin(shell, ToSet(files))'
  <2>1. \A p, b, s : Says(p, b, s)' = Says(p, b, s)
    BY DEF Says
  <2>2. ToSet(files)' = ToSet(files')
    BY DEF ToSet
  <2> QED BY <1>1, <2>1, <2>2 DEF Origin
<1>3. RefsOK(shell, refs)'
  BY <1>1 DEF RefsOK, Aliases
<1>4. Kinds(shell)'
  BY <1>1 DEF Kinds, AllLines, Lines
<1>5. MarksBy(shell, ToSet(files))' /\ Proper(shell)'
  BY <1>1 DEF MarksBy, Proper, ToSet
<1>6. Well(shell, ToSet(files))'
  BY <1>1 DEF Well, ScalarIn, Lines, ToSet
<1> QED BY <1>2, <1>3, <1>4, <1>5, <1>6 DEF Data

LEMMA DataInit == Init => DataInv
<1> SUFFICES ASSUME Init PROVE Data(shell, refs, ToSet(files))
  BY DEF DataInv
<1>1. shell = [n \in Names |-> Unset] /\ refs = [b \in Base |-> Plain] /\ ToSet(files) = {}
  BY DEF Init, ToSet
<1>2. \A b \in Base, s \in SuffixNames : shell[<<b, s>>] = Unset
  BY <1>1 DEF Names
<1>3. Origin(shell, {}) /\ RefsOK(shell, refs) /\ Proper(shell)
  BY <1>1, <1>2 DEF Origin, RefsOK, Proper, ArchSuffixes
<1>4. Kinds(shell)
  <2>1. input \in Inputs
    BY DEF Init
  <2> QED BY <1>2, <2>1, TreeHasOneType DEF Kinds, Assignment
<1>5. MarksBy(shell, {}) /\ Well(shell, {})
  <2>1. /\ \A c \in Names : shell[c].kind = "unset" /\ shell[c].marks = <<>>
        /\ \A b \in Base, s \in SuffixNames : <<b, s>> \in Names
    BY <1>1 DEF Unset, Names
  <2>2. \A M : <<>> \in Seq(M)
    OBVIOUS
  <2> QED BY <2>1, <2>2 DEF MarksBy, Well
<1> QED BY <1>1, <1>3, <1>4, <1>5 DEF Data

\* Before the first reading: nothing but scalars of the library are written.
LEMMA EarlyData ==
  ASSUME TypeInv, TypeInv', DataInv, pc \in {"enable"} \cup Early, pc' \in {"enable"} \cup Early,
         UNCHANGED <<input, refs, files>>,
         \A n \in Names : \/ shell'[n] = shell[n]
                          \/ n[2] = Plain /\ \E on \in BOOLEAN : shell'[n] = Scalar(Lib, "/usr", on)
  PROVE  DataInv'
<1>1. /\ files = <<>> /\ ToSet(files) = {} /\ ToSet(files') = {}
      /\ refs \in [Base -> SuffixNames] /\ shell' \in Shells /\ input \in Inputs
  <2>1. files = <<>> /\ refs \in [Base -> SuffixNames] /\ input \in Inputs
    BY DEF TypeInv, TypeOK
  <2>2. shell' \in Shells
    BY DEF TypeInv, TypeOK, Shells
  <2>3. files' = <<>>
    BY <2>1
  <2> QED BY <2>1, <2>2, <2>3 DEF ToSet
<1>2. Data(shell, refs, {})
  BY <1>1 DEF DataInv, Before
<1>3. /\ \A b \in Base : refs'[b] = Plain
      /\ \A b \in Base, s \in ArchSuffixes : shell[<<b, s>>] = Unset
  BY <1>1, <1>2, NothingRead
<1>4. ASSUME NEW b \in Base, NEW s \in ArchSuffixes PROVE shell'[<<b, s>>] = Unset
  <2>1. <<b, s>> \in Names /\ s # Plain
    BY DEF Names, ArchSuffixes
  <2> QED BY <1>3, <2>1
<1>5. Origin(shell, {})' /\ RefsOK(shell, refs)'
  BY <1>3, <1>4 DEF Origin, RefsOK
<1>6. Kinds(shell)'
  <2>1. \A l \in AllLines' : l \in Assignment
    BY <1>1, TreeHasOneType DEF AllLines, Lines
  <2> QED BY <1>4, <2>1 DEF Kinds, Assignment, ArchSuffixes
<1>7. \A on \in BOOLEAN : /\ Word(Lib, "/usr", on) \in Mark /\ Word(Lib, "/usr", on).by = Lib
                          /\ Scalar(Lib, "/usr", on).kind = "scalar"
                          /\ Scalar(Lib, "/usr", on).marks = <<Word(Lib, "/usr", on)>>
  BY ScalarIsValue DEF PrefixNames, Scalar, Word
<1>8. MarksBy(shell, {})'
  <2> DEFINE M == {m \in Mark : m.by \in {Lib, Arch} \cup {}}
  <2>1. \A n \in Names : shell[n].marks \in Seq(M)
    BY <1>2 DEF Data, MarksBy
  <2>2. \A on \in BOOLEAN : Scalar(Lib, "/usr", on).marks \in Seq(M)
    <3>1. \A on \in BOOLEAN : Word(Lib, "/usr", on) \in M
      BY <1>7
    <3> HIDE DEF M
    <3> QED BY <1>7, <3>1
  <2> HIDE DEF M
  <2>3. \A n \in Names : shell'[n].marks \in Seq(M)
    BY <2>1, <2>2
  <2> QED BY <2>3 DEF MarksBy, M
<1>9. Proper(shell)'
  <2>1. \A n \in Names : shell'[n].kind = "unset" => shell'[n] = shell[n]
    BY <1>7
  <2> QED BY <1>2, <2>1 DEF Data, Proper
<1>10. Well(shell, {})'
  <2> SUFFICES ASSUME NEW b \in Base \ Flags, NEW s \in SuffixNames
               PROVE  shell'[<<b, s>>].kind \in {"unset", "scalar"}
    BY DEF Well
  <2>1. <<b, s>> \in Names /\ ScalarIn({}, b)
    BY DEF Names, ScalarIn
  <2>2. shell[<<b, s>>].kind \in {"unset", "scalar"}
    BY <1>2, <2>1 DEF Data, Well
  <2> QED BY <1>7, <2>1, <2>2
<1>11. Data(shell, refs, {})'
  BY <1>5, <1>6, <1>8, <1>9, <1>10 DEF Data
<1> QED BY <1>1, <1>11 DEF DataInv

\* What the architecture file and default-flags.sh write.
LEMMA ArchWrites ==
  ASSUME TypeInv, DataInv, LoadArch, pc' = "second"
  PROVE  /\ PREFIX' = PrefixOf(ABHOST) /\ PrefixOf(ABHOST) \in PrefixNames
         /\ \A b \in Flags : refs[b] = Plain /\ shell'[<<b, Plain>>] = FlagsOf(shell[<<b, Plain>>])
         /\ \A c \in Names :
              \/ shell'[c] = shell[c]
              \/ c[1] \in Flags /\ c[2] = Plain /\ shell'[c] = FlagsOf(shell[c])
              \/ /\ c = Cell(c[1]) /\ c[1] \in ArchSets[ABHOST] /\ ABHOST \in DOMAIN ArchSets
                 /\ c[1] \notin Flags
                 /\ shell'[c] = Scalar(Arch, PrefixOf(ABHOST), TRUE)
<1>1. /\ pc = "arch" /\ PREFIX' = PrefixOf(ABHOST) /\ ABHOST \in DOMAIN ArchSets
      /\ shell' = [n \in Names |->
            IF n # Cell(n[1]) THEN shell[n]
            ELSE IF n[1] \in Flags THEN FlagsOf(shell[n])
            ELSE IF n[1] \in ArchSets[ABHOST] THEN Scalar(Arch, PrefixOf(ABHOST), TRUE)
            ELSE shell[n]]
  BY DEF LoadArch, Die
<1>2. Typed /\ Data(shell, refs, ToSet(files)) /\ ToSet(files) \subseteq DOMAIN input.tree
      /\ refs \in [Base -> SuffixNames]
  BY <1>1, TypedShell DEF DataInv, Before, TypeInv, TypeOK
<1>3. \A b \in Flags : refs[b] = Plain
  BY <1>2, FlagsPlain
<1>4. PrefixOf(ABHOST) \in PrefixNames
  BY DEF PrefixOf, PrefixNames
<1>5. ASSUME NEW b \in Flags PROVE shell'[<<b, Plain>>] = FlagsOf(shell[<<b, Plain>>])
  <2>1. <<b, Plain>> \in Names /\ Cell(b) = <<b, Plain>>
    BY <1>3, DefinesAssumption DEF Names, Cell, SuffixNames
  <2> QED BY <1>1, <2>1
<1>6. ASSUME NEW c \in Names
      PROVE  \/ shell'[c] = shell[c]
             \/ c[1] \in Flags /\ c[2] = Plain /\ shell'[c] = FlagsOf(shell[c])
             \/ /\ c = Cell(c[1]) /\ c[1] \in ArchSets[ABHOST] /\ ABHOST \in DOMAIN ArchSets
                /\ c[1] \notin Flags
                /\ shell'[c] = Scalar(Arch, PrefixOf(ABHOST), TRUE)
  <2>1. Cell(c[1])[2] = refs[c[1]]
    BY DEF Cell
  <2> QED BY <1>1, <1>3, <2>1
<1> QED BY <1>1, <1>3, <1>4, <1>5, <1>6

LEMMA ArchData ==
  ASSUME TypeInv, TypeInv', DataInv, LoadArch, pc' = "second"
  PROVE  Data(shell, refs, ToSet(files))'
<1> DEFINE F == ToSet(files)
<1>1. pc = "arch" /\ UNCHANGED <<input, ARCH, refs, files>>
  BY DEF LoadArch, arches
<1>2. Data(shell, refs, F) /\ refs \in [Base -> SuffixNames]
  BY <1>1 DEF DataInv, Before, TypeInv, TypeOK
<1>3. /\ PrefixOf(ABHOST) \in PrefixNames
      /\ \A c \in Names :
           \/ shell'[c] = shell[c]
           \/ c[1] \in Flags /\ c[2] = Plain /\ shell'[c] = FlagsOf(shell[c])
           \/ c = Cell(c[1]) /\ c[1] \notin Flags /\ shell'[c] = Scalar(Arch, PrefixOf(ABHOST), TRUE)
  BY ArchWrites
<1>4. /\ \A v : FlagsOf(v).kind = "array" /\ FlagsOf(v).marks = <<Word(Lib, PrefixOf(ABHOST), TRUE)>>
      /\ Scalar(Arch, PrefixOf(ABHOST), TRUE).kind = "scalar"
      /\ Scalar(Arch, PrefixOf(ABHOST), TRUE).marks = <<Word(Arch, PrefixOf(ABHOST), TRUE)>>
  BY DEF FlagsOf, Scalar
<1> HIDE DEF F
\* A specific variable is only written when it is referred to, as the scalar it is.
<1>5. ASSUME NEW b \in Base, NEW s \in ArchSuffixes
      PROVE  \/ shell'[<<b, s>>] = shell[<<b, s>>]
             \/ shell'[<<b, s>>].kind = "scalar" /\ shell[<<b, s>>].kind = "scalar"
  <2>1. <<b, s>> \in Names /\ s # Plain
    BY DEF Names, ArchSuffixes
  <2>2. CASE <<b, s>> = Cell(b) /\ shell'[<<b, s>>] = Scalar(Arch, PrefixOf(ABHOST), TRUE)
    <3>1. refs[b] = s
      BY <2>2 DEF Cell
    <3> QED BY <1>2, <1>4, <2>1, <2>2, <3>1 DEF Data, RefsOK
  <2> QED BY <1>3, <2>1, <2>2
<1>6. Origin(shell', F)
  <2>1. ASSUME NEW b \in Base, NEW s \in ArchSuffixes
        PROVE  shell'[<<b, s>>] # Unset <=> shell[<<b, s>>] # Unset
    BY <1>5 DEF Unset
  <2> QED BY <1>2, <2>1 DEF Data, Origin
<1>7. RefsOK(shell', refs)
  <2> SUFFICES ASSUME NEW b \in Base, refs[b] # Plain
               PROVE  shell'[<<b, refs[b]>>].kind = "scalar"
    BY <1>2 DEF Data, RefsOK
  <2>1. refs[b] \in ArchSuffixes /\ shell[<<b, refs[b]>>].kind = "scalar"
    BY <1>2 DEF Data, RefsOK, ArchSuffixes
  <2> QED BY <1>5, <2>1
<1>8. Kinds(shell')
  <2> SUFFICES ASSUME NEW l \in AllLines, l.as # Plain, shell'[<<l.base, l.as>>] # Unset
               PROVE  shell'[<<l.base, l.as>>].kind = l.kind
    BY DEF Kinds
  <2>1. l.base \in Base /\ l.as \in ArchSuffixes
    BY TreeHasOneType DEF TypeInv, Assignment, ArchSuffixes
  <2> QED BY <1>2, <1>5, <2>1 DEF Data, Kinds, Unset
<1>9. MarksBy(shell', F)
  <2> DEFINE M == {m \in Mark : m.by \in {Lib, Arch} \cup F}
  <2>1. \A c \in Names : shell[c].marks \in Seq(M)
    BY <1>2 DEF Data, MarksBy
  <2>2. Word(Lib, PrefixOf(ABHOST), TRUE) \in M /\ Word(Arch, PrefixOf(ABHOST), TRUE) \in M
    <3>1. /\ Word(Lib, PrefixOf(ABHOST), TRUE) \in Mark /\ Word(Arch, PrefixOf(ABHOST), TRUE) \in Mark
      BY <1>3, ScalarIsValue
    <3> QED BY <3>1 DEF Word
  <2> HIDE DEF M
  <2>3. <<Word(Lib, PrefixOf(ABHOST), TRUE)>> \in Seq(M) /\ <<Word(Arch, PrefixOf(ABHOST), TRUE)>> \in Seq(M)
    <3>1. \A x \in M : <<x>> \in Seq(M)
      OBVIOUS
    <3> QED BY <2>2, <3>1
  <2>4. ASSUME NEW c \in Names PROVE shell'[c].marks \in Seq(M)
    <3>1. \/ shell'[c] = shell[c] \/ shell'[c] = FlagsOf(shell[c])
          \/ shell'[c] = Scalar(Arch, PrefixOf(ABHOST), TRUE)
      BY <1>3
    <3>2. /\ FlagsOf(shell[c]).marks \in Seq(M)
          /\ Scalar(Arch, PrefixOf(ABHOST), TRUE).marks \in Seq(M)
      BY <1>4, <2>3
    <3> QED BY <2>1, <3>1, <3>2
  <2> QED BY <2>4 DEF MarksBy, M
<1>10. Proper(shell')
  <2> SUFFICES ASSUME NEW c \in Names, shell'[c].kind = "unset" PROVE shell'[c] = shell[c]
    BY <1>2 DEF Data, Proper
  <2>1. shell'[c] # FlagsOf(shell[c]) /\ shell'[c] # Scalar(Arch, PrefixOf(ABHOST), TRUE)
    BY <1>4
  <2> QED BY <1>3, <2>1
<1>11. Well(shell', F)
  <2> SUFFICES ASSUME NEW b \in Base \ Flags, ScalarIn(F, b), NEW s \in SuffixNames
               PROVE  shell'[<<b, s>>].kind \in {"unset", "scalar"}
    BY DEF Well
  <2>1. <<b, s>> \in Names /\ shell[<<b, s>>].kind \in {"unset", "scalar"}
    BY <1>2 DEF Data, Well, Names
  <2> QED BY <1>3, <1>4, <2>1
<1>12. Data(shell', refs', ToSet(files'))
  BY <1>1, <1>6, <1>7, <1>8, <1>9, <1>10, <1>11 DEF Data, F
<1> QED BY <1>1, <1>12, DataSame

\* What a reading does, when the run goes on after it.
Reading(path) ==
  /\ path \in Found /\ path \in DOMAIN input.tree
  /\ shell' = Copied(Sourced(path)) /\ refs' = Referring(Sourced(path))
  /\ files' = Append(files, path) /\ ToSet(files') = ToSet(files) \cup {path}
  /\ UNCHANGED <<input, ARCH, ABSTAGE2, PREFIX>>

LEMMA ReadingIs ==
  ASSUME TypeInv, NEW next \in {"compiler", "check"}, LoadDefines(next), pc' # "dead"
  PROVE  pc' = next /\ \E path \in Found : Reading(path)
<1>1. PICK path \in Found :
        /\ shell' = Copied(Sourced(path)) /\ refs' = Referring(Sourced(path)) /\ pc' = next
        /\ files' = Append(files, path)
        /\ UNCHANGED <<input, ARCH, ABSTAGE2, PREFIX>>
  BY DEF LoadDefines, Die
<1>2. path \in DOMAIN input.tree
  BY FoundExists
<1>3. files \in Seq(Paths) /\ path \in Paths
  BY <1>2, InputFacts DEF TypeInv, TypeOK
<1>4. ToSet(files') = ToSet(files) \cup {path}
  BY <1>1, <1>3 DEF ToSet
<1> QED BY <1>1, <1>2, <1>4 DEF Reading

LEMMA ReadingData ==
  ASSUME TypeInv, ARCH \in Arches, Data(shell, refs, ToSet(files)), NEW path, Reading(path)
  PROVE  /\ Sourced(path) \in Shells
         /\ Data(Sourced(path), refs, ToSet(files) \cup {path})
         /\ Data(shell', refs', ToSet(files) \cup {path})
         /\ Data(shell, refs, ToSet(files))'
<1>1. Typed /\ path \in DOMAIN input.tree /\ ToSet(files) \in SUBSET (DOMAIN input.tree)
  BY TypedShell DEF TypeInv, Reading
<1>2. Sourced(path) \in Shells /\ Data(Sourced(path), refs, ToSet(files) \cup {path})
  BY <1>1, SourcedIsLast, SourcedKeeps
<1>3. refs \in [Base -> SuffixNames] /\ input \in Inputs
  BY <1>1 DEF Typed
<1>4. Data(shell', refs', ToSet(files) \cup {path})
  BY <1>2, <1>3, CopiedKeeps DEF Reading
<1>5. UNCHANGED <<input, ARCH>> /\ Data(shell', refs', ToSet(files'))
  BY <1>4 DEF Reading
<1> QED BY <1>2, <1>4, <1>5, DataSame

LEMMA DataStep == TypeInv /\ TypeInv' /\ DataInv /\ [Next]_vars => DataInv'
<1> SUFFICES ASSUME TypeInv, TypeInv', DataInv, [Next]_vars PROVE DataInv'
  OBVIOUS
<1>1. CASE UNCHANGED <<pc, input, ARCH, shell, refs, files>>
  <2>1. pc \in Before => Data(shell', refs', ToSet(files'))
    BY <1>1 DEF DataInv
  <2> QED BY <1>1, <2>1, DataSame DEF DataInv, Before
<1>2. CASE Enable \/ Arguments \/ ParseModifiers
  <2>1. /\ pc \in {"enable", "arguments", "modifiers"} /\ UNCHANGED <<input, shell, refs, files>>
        /\ pc' \in {"arguments", "defaults", "first", "dead"}
    BY <1>2 DEF Enable, Arguments, ParseModifiers
  <2>2. pc' # "dead" => DataInv'
    BY <2>1, EarlyData DEF Early
  <2> QED BY <2>1, <2>2 DEF DataInv, Before, Early
<1>3. CASE LoadDefaults
  <2>1. /\ pc = "defaults" /\ pc' = "modifiers" /\ UNCHANGED <<input, refs, files>>
    BY <1>3 DEF LoadDefaults
  <2>2. ASSUME NEW n \in Names
        PROVE  \/ shell'[n] = shell[n]
               \/ n[2] = Plain /\ \E on \in BOOLEAN : shell'[n] = Scalar(Lib, "/usr", on)
    <3>1. shell'[n] =
            IF n[2] # Plain \/ Defaults[n[1]] = "unset" THEN shell[n]
            ELSE Scalar(Lib, "/usr", Defaults[n[1]] = "on" /\ ~(n[1] = "ABSPLITDBG" /\ ShellStage2))
      BY <1>3 DEF LoadDefaults
    <3> DEFINE on == Defaults[n[1]] = "on" /\ ~(n[1] = "ABSPLITDBG" /\ ShellStage2)
    <3>2. on \in BOOLEAN
      OBVIOUS
    <3>3. \/ shell'[n] = shell[n]
          \/ n[2] = Plain /\ shell'[n] = Scalar(Lib, "/usr", on)
      BY <3>1
    <3> HIDE DEF on
    <3> QED BY <3>2, <3>3
  <2> QED BY <2>1, <2>2, EarlyData DEF Early
<1>4. CASE FirstDefines \/ SecondDefines
  <2>1. CASE pc' = "dead"
    BY <2>1 DEF DataInv, Before, Early
  <2>2. CASE pc' # "dead"
    <3>1. pc \in {"first", "second"} /\ \E next \in {"compiler", "check"} : LoadDefines(next)
      BY <1>4 DEF FirstDefines, SecondDefines
    <3>2. PICK path \in Found : Reading(path)
      BY <2>2, <3>1, ReadingIs
    <3>3. ARCH \in Arches /\ Data(shell, refs, ToSet(files))
      BY <3>1 DEF TypeInv, DataInv, Before, Early, Late
    <3> QED BY <3>2, <3>3, ReadingData DEF DataInv
  <2> QED BY <2>1, <2>2
<1>5. CASE ChooseCompiler
  <2>1. /\ pc = "compiler" /\ pc' \in {"arch", "dead"} /\ UNCHANGED <<input, ARCH, shell, refs, files>>
    BY <1>5 DEF ChooseCompiler, arches
  <2>2. Data(shell', refs', ToSet(files'))
    BY <2>1 DEF DataInv, Before
  <2> QED BY <2>1, <2>2, DataSame DEF DataInv
<1>6. CASE LoadArch
  <2>1. pc' \in {"second", "dead"}
    BY <1>6 DEF LoadArch, Die
  <2> QED BY <1>6, <2>1, ArchData DEF DataInv, Before, Early
<1>7. CASE Check
  BY <1>7 DEF Check, DataInv, Before, Early
<1>8. CASE UNCHANGED vars \/ Ended
  BY <1>1, <1>8 DEF Ended, vars, arches
<1> QED BY <1>2, <1>3, <1>4, <1>5, <1>6, <1>7, <1>8 DEF Next

-----------------------------------------------------------------------------
(* The package has the last word.                                          *)

\* default-flags.sh has just assigned its arrays.
FlagsInv ==
  pc = "second" => \A b \in Flags :
    shell[<<b, Plain>>] = [kind |-> "array", marks |-> <<Word(Lib, PREFIX, TRUE)>>]

LEMMA FlagsInit == Init => FlagsInv
BY DEF Init, FlagsInv

LEMMA FlagsStep == TypeInv /\ DataInv /\ FlagsInv /\ [Next]_vars => FlagsInv'
<1> SUFFICES ASSUME TypeInv, DataInv, FlagsInv, [Next]_vars, pc' = "second" PROVE FlagsInv'
  BY DEF FlagsInv
<1>1. CASE LoadArch
  <2>1. PREFIX' = PrefixOf(ABHOST) /\ \A b \in Flags : shell'[<<b, Plain>>] = FlagsOf(shell[<<b, Plain>>])
    BY <1>1, ArchWrites
  <2> QED BY <2>1 DEF FlagsInv, FlagsOf, Word
<1>2. CASE UNCHANGED vars
  BY <1>2 DEF FlagsInv, vars, Word
<1>3. CASE FirstDefines \/ SecondDefines
  BY <1>3, ReadingIs DEF FirstDefines, SecondDefines
<1>4. CASE Enable \/ Arguments \/ LoadDefaults \/ ParseModifiers \/ ChooseCompiler \/ Check
  BY <1>4 DEF Enable, Arguments, LoadDefaults, ParseModifiers, ChooseCompiler, Check
<1> QED BY <1>1, <1>2, <1>3, <1>4 DEF Next, Ended

\* A variable that a line writes has the mark of that line, or of a later one, last.
LEMMA LastWritten ==
  ASSUME Typed, NEW path \in DOMAIN input.tree, NEW c \in Names,
         NEW k \in 1..Len(Lines(path)), Writes(path, c, k)
  PROVE  \E j \in k..Len(Lines(path)) :
            /\ j \in 1..Len(Lines(path))
            /\ LastWriter(path, c, j, Len(Lines(path))) /\ Left(Sourced(path)[c], path, j)
<1> DEFINE n == Len(Lines(path))
<1>1. n \in Nat
  BY LineFacts
<1>2. PICK j \in 1..n : LastWriter(path, c, j, n) /\ Left(Sourced(path)[c], path, j)
  BY SourcedIsLast
<1> HIDE DEF n
<1>3. ~(j < k)
  BY <1>1, <1>2 DEF LastWriter, n
<1>4. j \in k..n
  BY <1>1, <1>3 DEF n
<1> QED BY <1>2, <1>4 DEF n

\* The first of the specific names that has a value, after a reading.
First(sh, b) == Aliases[Min(Hits(sh, b))]

\* What a reading makes of NAME.
LEMMA ReadName ==
  ASSUME TypeInv, ARCH \in Arches, Data(shell, refs, ToSet(files)), NEW path, Reading(path),
         NEW b \in Exported
  PROVE  /\ Hits(Sourced(path), b) = {} =>
              /\ refs[b] = Plain /\ refs'[b] = Plain
              /\ shell'[<<b, Plain>>] = Sourced(path)[<<b, Plain>>]
         /\ Hits(Sourced(path), b) # {} =>
              /\ First(Sourced(path), b) \in ArchSuffixes
              /\ shell'[<<b, First(Sourced(path), b)>>] = Sourced(path)[<<b, First(Sourced(path), b)>>]
              /\ Sourced(path)[<<b, First(Sourced(path), b)>>].kind \in {"scalar", "array"}
              /\ Sourced(path)[Cell(b)].kind \in {"unset", Sourced(path)[<<b, First(Sourced(path), b)>>].kind} =>
                   shell'[<<b, refs'[b]>>] = shell'[<<b, First(Sourced(path), b)>>]
<1> DEFINE sh == Sourced(path)
           F == ToSet(files) \cup {path}
<1>1. /\ sh \in Shells /\ Data(sh, refs, F) /\ shell' = Copied(sh) /\ refs' = Referring(sh)
      /\ refs \in [Base -> SuffixNames] /\ input \in Inputs /\ b \in Base
  BY ReadingData, TypedShell, DefinesAssumption DEF Reading, Typed
<1> HIDE DEF sh, F
<1>2. /\ \A s \in ArchSuffixes : shell'[<<b, s>>] = sh[<<b, s>>]
      /\ Takes(sh, b, "array") => refs[b] = Plain
  BY <1>1, CopiedKeeps
<1>3. /\ LoadedVar(sh, b) =
           IF /\ Hits(sh, b) # {}
              /\ sh[Cell(b)].kind \in {"unset", sh[<<b, First(sh, b)>>].kind}
           THEN First(sh, b) ELSE Plain
      /\ Hits(sh, b) # {} => /\ Min(Hits(sh, b)) \in Hits(sh, b) /\ First(sh, b) \in ArchSuffixes
                             /\ First(sh, b) \in ToSet(Aliases)
  BY <1>1, Loaded DEF First
<1>4. refs'[b] = (IF Takes(sh, b, "scalar") THEN LoadedVar(sh, b) ELSE refs[b])
  BY <1>1 DEF Referring
<1>5. ASSUME Hits(sh, b) = {}
      PROVE  refs[b] = Plain /\ refs'[b] = Plain /\ shell'[<<b, Plain>>] = sh[<<b, Plain>>]
  <2>1. LoadedVar(sh, b) = Plain
    BY <1>3, <1>5
  <2>2. ~Takes(sh, b, "scalar") /\ ~Takes(sh, b, "array")
    BY <2>1 DEF Takes
  <2>3. refs[b] = Plain
    <3> SUFFICES ASSUME refs[b] # Plain PROVE FALSE
      OBVIOUS
    <3>1. refs[b] \in ToSet(Aliases) /\ sh[<<b, refs[b]>>] # Unset
      BY <1>1 DEF Data, RefsOK, Unset
    <3>2. PICK i \in DOMAIN Aliases : Aliases[i] = refs[b]
      BY <3>1, AliasFacts DEF ToSet
    <3> QED BY <1>5, <3>1, <3>2 DEF Hits
  <2>4. <<b, Plain>> \in Names
    BY <1>1 DEF Names, SuffixNames
  <2>5. shell'[<<b, Plain>>] = sh[<<b, Plain>>]
    BY <1>1, <2>2, <2>4 DEF Copied
  <2> QED BY <1>4, <2>2, <2>3, <2>5
<1>6. ASSUME Hits(sh, b) # {}
      PROVE  /\ First(sh, b) \in ArchSuffixes
             /\ shell'[<<b, First(sh, b)>>] = sh[<<b, First(sh, b)>>]
             /\ sh[<<b, First(sh, b)>>].kind \in {"scalar", "array"}
             /\ sh[Cell(b)].kind \in {"unset", sh[<<b, First(sh, b)>>].kind} =>
                  shell'[<<b, refs'[b]>>] = shell'[<<b, First(sh, b)>>]
  <2>1. First(sh, b) \in ArchSuffixes /\ First(sh, b) # Plain /\ <<b, First(sh, b)>> \in Names
        /\ <<b, Plain>> \in Names
    BY <1>1, <1>3, <1>6 DEF ArchSuffixes, Names, SuffixNames
  <2>2. sh[<<b, First(sh, b)>>] # Unset
    BY <1>3, <1>6 DEF Hits, First
  <2>3. sh[<<b, First(sh, b)>>].kind \in {"scalar", "array"}
    BY <1>1, <2>1, <2>2 DEF Data, Proper, Shells, Value
  <2>4. ASSUME sh[Cell(b)].kind \in {"unset", sh[<<b, First(sh, b)>>].kind}
        PROVE  shell'[<<b, refs'[b]>>] = shell'[<<b, First(sh, b)>>]
    <3>1. LoadedVar(sh, b) = First(sh, b)
      BY <1>3, <1>6, <2>4
    <3>2. CASE sh[<<b, First(sh, b)>>].kind = "scalar"
      BY <1>4, <2>1, <3>1, <3>2 DEF Takes, Source
    <3>3. CASE sh[<<b, First(sh, b)>>].kind = "array"
      <4>1. Takes(sh, b, "array") /\ ~Takes(sh, b, "scalar")
        BY <2>1, <3>1, <3>3 DEF Takes, Source
      <4>2. refs[b] = Plain /\ refs'[b] = Plain /\ Cell(b) = <<b, Plain>>
        BY <1>2, <1>4, <4>1 DEF Cell
      <4>3. shell'[<<b, Plain>>] = sh[<<b, First(sh, b)>>]
        BY <1>1, <2>1, <3>1, <4>1, <4>2 DEF Copied, Source
      <4> QED BY <1>2, <2>1, <4>2, <4>3
    <3> QED BY <2>3, <3>2, <3>3
  <2> QED BY <1>2, <2>1, <2>3, <2>4
<1> QED BY <1>5, <1>6 DEF sh

\* The names with which the files that were read say something of b, and the first.
Special(b) == {k \in DOMAIN Aliases : \E p \in ToSet(files) : Says(p, b, Aliases[k]) # {}}
Best(b) == Aliases[Min(Special(b))]

Wins(b) ==
  WellTyped(b) =>
    /\ Special(b) # {} => Plainly(b) = shell[<<b, Best(b)>>]
    /\ Special(b) # {} /\ SaysLast(files[2], b, Best(b)) => Latest(b).as = Best(b)
    /\ Special(b) = {} /\ Says(files[2], b, Plain) # {} =>
          Latest(b).as = Plain /\ Latest(b).by = files[2]

WinsInv == pc \in {"check", "ready"} => \A b \in Exported \ Overruled : Wins(b)

\* The files that were read say of NAME__X what has made it a variable.
LEMMA SpecialIsHit ==
  ASSUME TypeInv, ARCH \in Arches, Data(shell, refs, ToSet(files)), NEW path, Reading(path),
         NEW b \in Exported
  PROVE  Special(b)' = Hits(Sourced(path), b) /\ Best(b)' = First(Sourced(path), b)
<1>1. Data(Sourced(path), refs, ToSet(files) \cup {path}) /\ b \in Base
  BY ReadingData, DefinesAssumption
<1>2. \A i \in DOMAIN Aliases : Aliases[i] \in ArchSuffixes
  BY AliasFacts
<1>3. Aliases' = Aliases /\ \A p, s : Says(p, b, s)' = Says(p, b, s)
  BY DEF Reading, Aliases, Says
<1>4. ToSet(files)' = ToSet(files) \cup {path}
  BY DEF Reading, ToSet
<1>5. Special(b)' = {k \in DOMAIN Aliases : \E p \in ToSet(files) \cup {path} : Says(p, b, Aliases[k]) # {}}
  BY <1>3, <1>4 DEF Special
<1>6. Special(b)' = Hits(Sourced(path), b)
  BY <1>1, <1>2, <1>5 DEF Data, Origin, Hits
<1> QED BY <1>3, <1>6 DEF Best, First

\* The types agree, so that NAME is taken for its specific variable.
LEMMA TypesAgree ==
  ASSUME TypeInv, DataInv, FlagsInv, pc = "second", NEW path, Reading(path),
         NEW b \in Exported, WellTyped(b)', Hits(Sourced(path), b) # {}
  PROVE  Sourced(path)[Cell(b)].kind \in {"unset", Sourced(path)[<<b, First(Sourced(path), b)>>].kind}
<1> DEFINE sh == Sourced(path)
           F == ToSet(files) \cup {path}
           s == First(sh, b)
<1>1. /\ ARCH \in Arches /\ Data(shell, refs, ToSet(files)) /\ Typed /\ path \in DOMAIN input.tree
      /\ F \in SUBSET (DOMAIN input.tree) /\ b \in Base /\ refs[b] \in SuffixNames
      /\ Cell(b) = <<b, refs[b]>> /\ Cell(b) \in Names
  BY TypedShell, DefinesAssumption DEF TypeInv, TypeOK, DataInv, Before, Late, Reading, Cell, Names
<1>2. Data(sh, refs, F) /\ s \in ArchSuffixes /\ sh[<<b, s>>].kind \in {"scalar", "array"}
  BY <1>1, ReadingData, ReadName
<1>3. \A p \in F : \A a \in ToSet(Lines(p)) : a.base = b => a.kind = IF b \in Flags THEN "array" ELSE "scalar"
  <2>1. ToSet(files)' = F
    BY DEF Reading, ToSet
  <2>2. \A p : ToSet(input.tree[p].lines)' = ToSet(Lines(p))
    BY DEF Reading, ToSet, Lines
  <2> QED BY <2>1, <2>2 DEF WellTyped
<1>4. sh[<<b, s>>] # Unset
  BY <1>2 DEF Unset
<1> HIDE DEF sh, F, s
<1>5. CASE b \notin Flags
  <2>1. ScalarIn(F, b)
    BY <1>3, <1>5 DEF ScalarIn
  <2>2. sh[<<b, s>>].kind = "scalar" /\ sh[<<b, refs[b]>>].kind \in {"unset", "scalar"}
    BY <1>1, <1>2, <1>5, <2>1 DEF Data, Well, ArchSuffixes
  <2> QED BY <1>1, <2>2 DEF sh, s
<1>6. CASE b \in Flags
  <2>1. refs[b] = Plain /\ shell[<<b, Plain>>].kind = "array"
    <3>1. refs \in [Base -> SuffixNames] /\ ToSet(files) \in SUBSET (DOMAIN input.tree)
      BY <1>1 DEF Typed, F
    <3> QED BY <1>1, <1>6, <3>1, FlagsPlain DEF FlagsInv
  <2>2. \A k \in 1..Len(Lines(path)) : Writes(path, <<b, Plain>>, k) => Lines(path)[k].kind = "array"
    <3>1. Plain \in SuffixNames
      BY DEF SuffixNames
    <3>2. path \in F
      BY DEF F
    <3> QED BY <1>1, <1>3, <1>6, <3>1, <3>2, WritesOf
  <2>3. sh[<<b, Plain>>].kind \in {"unset", "array"}
    BY <1>1, <2>1, <2>2, SourcedKind DEF sh
  <2>4. PICK p \in F : Says(p, b, s) # {}
    BY <1>1, <1>2, <1>4 DEF Data, Origin
  <2>5. PICK k \in 1..Len(Lines(p)) : Lines(p)[k].base = b /\ Lines(p)[k].as = s
    BY <1>1, <1>2, <2>4, SaysLines DEF ArchSuffixes
  <2>6. Lines(p)[k] \in AllLines /\ Lines(p)[k] \in ToSet(Lines(p))
    BY <1>1, <2>5, WritesOf
  <2>7. Lines(p)[k].kind = "array" /\ s # Plain
    BY <1>2, <1>3, <1>6, <2>5, <2>6 DEF ArchSuffixes
  <2>8. sh[<<b, s>>].kind = "array"
    BY <1>2, <1>4, <2>5, <2>6, <2>7 DEF Data, Kinds
  <2> QED BY <1>1, <2>1, <2>3, <2>8 DEF sh, s
<1> QED BY <1>5, <1>6

LEMMA SecondWins ==
  ASSUME TypeInv, TypeInv', DataInv, FlagsInv, pc = "second", NEW path, Reading(path), NEW b \in Exported
  PROVE  Wins(b)'
<1> DEFINE sh == Sourced(path)
           n == Len(Lines(path))
<1>1. /\ ARCH \in Arches /\ Data(shell, refs, ToSet(files)) /\ Typed /\ path \in DOMAIN input.tree
      /\ b \in Base /\ Cell(b) = <<b, refs[b]>> /\ \A s \in SuffixNames : <<b, s>> \in Names
      /\ refs \in [Base -> SuffixNames]
  BY TypedShell, DefinesAssumption DEF TypeInv, TypeOK, DataInv, Before, Late, Reading, Cell, Names
<1>2. files'[2] = path
  <2>1. files \in Seq(Paths) /\ Len(files) = 1 /\ files' = Append(files, path)
    <3>1. files \in Seq(Paths) /\ Len(files) = 1
      BY DEF TypeInv, TypeOK
    <3>2. files' = Append(files, path)
      BY DEF Reading
    <3> QED BY <3>1, <3>2
  <2>2. path \in Paths
    BY <1>1, LineFacts
  <2>3. \A f \in Seq(Paths) : /\ Len(Append(f, path)) = Len(f) + 1
                              /\ Append(f, path)[Len(Append(f, path))] = path
    BY <2>2
  <2>4. Len(files') = Len(files) + 1 /\ files'[Len(files')] = path
    BY <2>1, <2>3
  <2>5. Len(files') = 2
    BY <2>1, <2>4
  <2> QED BY <2>4, <2>5
<1>3. Plainly(b)' = shell'[<<b, refs'[b]>>]
  BY DEF Plainly, Cell
<1>4. Special(b)' = Hits(sh, b) /\ Best(b)' = First(sh, b)
  BY <1>1, SpecialIsHit
<1>5. \A p, s : Says(p, b, s)' = Says(p, b, s)
  BY DEF Reading, Says
<1> SUFFICES ASSUME WellTyped(b)' PROVE Wins(b)'
  BY DEF Wins
\* The last line that writes a variable is its latest mark.
<1>6. ASSUME NEW s \in SuffixNames, NEW k \in 1..n, Writes(path, <<b, s>>, k)
      PROVE  \E j \in 1..n :
                /\ k <= j /\ Writes(path, <<b, s>>, j)
                /\ Last(sh[<<b, s>>].marks) = MarkOf(path, j, Lines(path)[j])
  <2>1. PICK j \in k..n : /\ j \in 1..n /\ LastWriter(path, <<b, s>>, j, n)
                          /\ Left(sh[<<b, s>>], path, j)
    BY <1>1, <1>6, LastWritten
  <2> HIDE DEF n, sh
  <2>2. k <= j /\ Writes(path, <<b, s>>, j)
    BY <2>1 DEF LastWriter
  <2>3. Last(sh[<<b, s>>].marks) = MarkOf(path, j, Lines(path)[j])
    BY <2>1 DEF Left, Last
  <2> QED BY <2>1, <2>2, <2>3
<1>7. ASSUME Hits(sh, b) # {}
      PROVE  /\ First(sh, b) \in ArchSuffixes /\ First(sh, b) \in SuffixNames /\ First(sh, b) # Plain
             /\ Plainly(b)' = shell'[<<b, First(sh, b)>>]
             /\ Plainly(b)' = sh[<<b, First(sh, b)>>]
  <2>1. sh[Cell(b)].kind \in {"unset", sh[<<b, First(sh, b)>>].kind}
    BY <1>7, TypesAgree
  <2> HIDE DEF n
  <2>2. /\ First(sh, b) \in ArchSuffixes /\ shell'[<<b, First(sh, b)>>] = sh[<<b, First(sh, b)>>]
        /\ shell'[<<b, refs'[b]>>] = shell'[<<b, First(sh, b)>>]
    BY <1>1, <1>7, <2>1, ReadName
  <2> QED BY <1>3, <2>2 DEF ArchSuffixes
<1> DEFINE s == First(sh, b)
<1>8. ASSUME Hits(sh, b) # {}, SaysLast(path, b, s) PROVE Last(Plainly(b)'.marks).as = s
  <2>1. s \in SuffixNames /\ s # Plain /\ Plainly(b)' = sh[<<b, s>>]
    BY <1>7, <1>8
  <2> HIDE DEF sh, s
  <2>2. PICK k \in Says(path, b, s) : \A j \in Says(path, b, Plain) : j < k
    BY <1>8 DEF SaysLast
  <2>3. k \in 1..n /\ Writes(path, <<b, s>>, k)
    BY <1>1, <2>1, <2>2, SaysLines, WritesOf
  <2>4. PICK j \in 1..n : /\ k <= j /\ Writes(path, <<b, s>>, j)
                          /\ Last(sh[<<b, s>>].marks) = MarkOf(path, j, Lines(path)[j])
    BY <1>6, <2>1, <2>3
  <2>5. n \in Nat /\ j \in Nat /\ k \in Nat
    BY <1>1, <2>3, LineFacts
  <2>6. Lines(path)[j].base = b /\ Lines(path)[j].as \in {s, Plain}
    BY <1>1, <2>1, <2>4, WritesOf
  <2>7. Lines(path)[j].as # Plain
    <3>1. Plain \in SuffixNames
      BY DEF SuffixNames
    <3>2. Lines(path)[j].as = Plain => j \in Says(path, b, Plain)
      BY <1>1, <2>6, <3>1, SaysLines
    <3> QED BY <2>2, <2>4, <2>5, <3>2
  <2> QED BY <2>1, <2>4, <2>6, <2>7 DEF MarkOf
<1>9. ASSUME Hits(sh, b) = {}, Says(path, b, Plain) # {}
      PROVE  Last(Plainly(b)'.marks).as = Plain /\ Last(Plainly(b)'.marks).by = path
  <2>1. refs[b] = Plain /\ Plainly(b)' = sh[<<b, Plain>>]
    BY <1>1, <1>3, <1>9, ReadName
  <2> HIDE DEF sh, s
  <2>2. Plain \in SuffixNames
    BY DEF SuffixNames
  <2>3. PICK k \in 1..n : Lines(path)[k].base = b /\ Lines(path)[k].as = Plain
    BY <1>1, <1>9, <2>2, SaysLines
  <2>4. Writes(path, <<b, Plain>>, k)
    BY <1>1, <2>1, <2>2, <2>3, WritesOf
  <2>5. PICK j \in 1..n : /\ Writes(path, <<b, Plain>>, j)
                          /\ Last(sh[<<b, Plain>>].marks) = MarkOf(path, j, Lines(path)[j])
    BY <1>6, <2>2, <2>4
  <2>6. Lines(path)[j].as = Plain
    BY <1>1, <2>2, <2>5, WritesOf
  <2> QED BY <2>1, <2>5, <2>6 DEF MarkOf
<1> HIDE DEF sh, s, n
<1>10. ASSUME Special(b)' # {}
       PROVE  /\ Plainly(b)' = shell'[<<b, Best(b)'>>]
              /\ SaysLast(path, b, Best(b)') => Last(Plainly(b)'.marks).as = Best(b)'
  BY <1>4, <1>7, <1>8, <1>10 DEF s
<1>11. ASSUME Special(b)' = {}, Says(path, b, Plain) # {}
       PROVE  Last(Plainly(b)'.marks).as = Plain /\ Last(Plainly(b)'.marks).by = path
  BY <1>4, <1>9, <1>11
<1>12. /\ SaysLast(files[2], b, Best(b))' = SaysLast(path, b, Best(b)')
       /\ Says(files[2], b, Plain)' = Says(path, b, Plain)
       /\ Latest(b)' = Last(Plainly(b)'.marks)
  <2>1. SaysLast(files[2], b, Best(b))' = SaysLast(path, b, Best(b)')
    BY <1>2, <1>5 DEF SaysLast
  <2>2. Says(files[2], b, Plain)' = Says(path, b, Plain)
    BY <1>2, <1>5
  <2> QED BY <2>1, <2>2 DEF Latest, Last
<1> QED BY <1>2, <1>10, <1>11, <1>12 DEF Wins

\* The end of the script leaves every variable alone but three.
LEMMA CheckWrites ==
  ASSUME TypeInv, Check, NEW b \in Base, NEW s \in SuffixNames
  PROVE  \/ shell'[<<b, s>>] = shell[<<b, s>>]
         \/ b \in Overruled /\ shell'[<<b, s>>] = Scalar(Lib, PREFIX, FALSE)
<1>1. <<b, s>> \in Names /\ refs \in [Base -> SuffixNames]
  BY DEF Names, TypeInv, TypeOK
<1>2. \A x : <<b, s>> = Cell(x) => b = x
  BY DEF Cell
<1> QED BY <1>1, <1>2 DEF Check, Overruled

LEMMA WinsSame ==
  ASSUME TypeInv, ARCH \in Arches, UNCHANGED <<input, ARCH, refs, files>>, NEW b \in Exported,
         \A s \in SuffixNames : shell'[<<b, s>>] = shell[<<b, s>>], Wins(b)
  PROVE  Wins(b)'
<1>1. b \in Base /\ refs[b] \in SuffixNames
  BY DefinesAssumption DEF TypeInv, TypeOK
<1>2. Plainly(b)' = Plainly(b) /\ Latest(b)' = Latest(b)
  BY <1>1 DEF Plainly, Cell, Latest, Last
<1>3. /\ \A p, s : Says(p, b, s)' = Says(p, b, s)
      /\ Aliases' = Aliases /\ ToSet(files)' = ToSet(files)
  BY DEF Says, Aliases, ToSet
<1>4. Special(b)' = Special(b) /\ Best(b)' = Best(b)
  BY <1>3 DEF Special, Best
<1>5. WellTyped(b)' = WellTyped(b)
  BY DEF WellTyped, ToSet
<1>6. Special(b) # {} => Best(b) \in SuffixNames
  <2>1. Aliases \in Seq(ArchSuffixes)
    BY AliasFacts
  <2>2. DOMAIN Aliases \subseteq Nat /\ \A i \in DOMAIN Aliases : Aliases[i] \in SuffixNames
    BY <2>1 DEF ArchSuffixes
  <2>3. Special(b) \in SUBSET Nat /\ Special(b) \subseteq DOMAIN Aliases
    BY <2>2 DEF Special
  <2> QED BY <2>2, <2>3, LeastIsMin DEF Best
<1>7. /\ SaysLast(files[2], b, Best(b))' = SaysLast(files[2], b, Best(b))
      /\ Says(files[2], b, Plain)' = Says(files[2], b, Plain)
  <2>1. files'[2] = files[2]
    OBVIOUS
  <2> QED BY <1>3, <1>4, <2>1 DEF SaysLast
<1>8. Special(b) # {} => shell[<<b, Best(b)>>]' = shell[<<b, Best(b)>>]
  BY <1>4, <1>6
<1>9. files'[2] = files[2]
  OBVIOUS
<1> QED BY <1>2, <1>4, <1>5, <1>7, <1>8, <1>9 DEF Wins

LEMMA WinsStep == TypeInv /\ TypeInv' /\ DataInv /\ FlagsInv /\ WinsInv /\ [Next]_vars => WinsInv'
<1> SUFFICES ASSUME TypeInv, TypeInv', DataInv, FlagsInv, WinsInv, [Next]_vars,
                    pc' \in {"check", "ready"}, NEW b \in Exported \ Overruled
             PROVE  Wins(b)'
  BY DEF WinsInv
<1>1. CASE UNCHANGED vars \/ Check
  <2>1. /\ pc \in {"check", "ready"} /\ UNCHANGED <<input, ARCH, refs, files>>
        /\ b \in Base
    BY <1>1, DefinesAssumption DEF vars, arches, Check
  <2>2. ARCH \in Arches /\ Wins(b)
    BY <2>1 DEF TypeInv, Late, WinsInv
  <2>3. \A s \in SuffixNames : shell'[<<b, s>>] = shell[<<b, s>>]
    BY <1>1, <2>1, CheckWrites DEF vars
  <2> QED BY <2>1, <2>2, <2>3, WinsSame
<1>2. CASE SecondDefines
  <2>1. pc = "second" /\ LoadDefines("check") /\ pc' # "dead"
    BY <1>2 DEF SecondDefines
  <2>2. PICK path \in Found : Reading(path)
    BY <2>1, ReadingIs
  <2> QED BY <2>1, <2>2, SecondWins
<1>3. CASE FirstDefines
  BY <1>3, ReadingIs DEF FirstDefines
<1>4. CASE Enable \/ Arguments \/ LoadDefaults \/ ParseModifiers \/ ChooseCompiler \/ LoadArch
  BY <1>4 DEF Enable, Arguments, LoadDefaults, ParseModifiers, ChooseCompiler, LoadArch, Die
<1> QED BY <1>1, <1>2, <1>3, <1>4 DEF Next, Ended

-----------------------------------------------------------------------------
(* Debug symbols in stage 2.                                               *)

\* Whatever is on was switched on by a file of the package.
SwitchedBy(sh, F) ==
  \A s \in SuffixNames : IsOn(sh[<<"ABSPLITDBG", s>>]) => Last(sh[<<"ABSPLITDBG", s>>].marks).by \in F

SymbolsInv ==
  pc \in {"modifiers", "first"} \cup Late /\ ShellStage2 /\ input.modifiers # "+stage2" =>
    SwitchedBy(shell, ToSet(files))

LEMMA ReadingSwitches ==
  ASSUME TypeInv, ARCH \in Arches, NEW path, Reading(path), SwitchedBy(shell, ToSet(files))
  PROVE  SwitchedBy(Sourced(path), ToSet(files')) /\ SwitchedBy(shell', ToSet(files'))
<1> DEFINE b == "ABSPLITDBG"
<1>1. /\ Typed /\ path \in DOMAIN input.tree /\ b \in Base /\ ToSet(files') = ToSet(files) \cup {path}
      /\ shell' = Copied(Sourced(path)) /\ \A s \in SuffixNames : <<b, s>> \in Names
  BY TypedShell, DefinesAssumption DEF Reading, Names
<1> HIDE DEF b
<1>2. ASSUME NEW s \in SuffixNames, IsOn(Sourced(path)[<<b, s>>])
      PROVE  Last(Sourced(path)[<<b, s>>].marks).by \in ToSet(files')
  <2>1. CASE Sourced(path)[<<b, s>>] = shell[<<b, s>>]
    BY <1>1, <1>2, <2>1 DEF SwitchedBy, b
  <2>2. CASE \E k \in 1..Len(Lines(path)) : Left(Sourced(path)[<<b, s>>], path, k)
    BY <1>1, <2>2 DEF Left, Last, MarkOf
  <2> QED BY <1>1, <2>1, <2>2, SourcedIsLast
<1>3. ASSUME NEW s \in SuffixNames
      PROVE  \E t \in SuffixNames : shell'[<<b, s>>] = Sourced(path)[<<b, t>>]
  BY <1>1, CopiedFrom
<1>4. SwitchedBy(Sourced(path), ToSet(files'))
  BY <1>2 DEF SwitchedBy, b
<1>5. SwitchedBy(shell', ToSet(files'))
  BY <1>2, <1>3 DEF SwitchedBy, b
<1> QED BY <1>4, <1>5

LEMMA SymbolsStep == TypeInv /\ TypeInv' /\ DataInv /\ SymbolsInv /\ [Next]_vars => SymbolsInv'
<1> SUFFICES ASSUME TypeInv, TypeInv', DataInv, SymbolsInv, [Next]_vars,
                    pc' \in {"modifiers", "first"} \cup Late, ShellStage2', input'.modifiers # "+stage2"
             PROVE  SwitchedBy(shell, ToSet(files))'
  BY DEF SymbolsInv
<1> DEFINE b == "ABSPLITDBG"
<1>0. /\ b \in Base /\ Defaults[b] # "unset" /\ b \notin Flags
      /\ \A h \in DOMAIN ArchSets : b \notin ArchSets[h]
      /\ \A s \in SuffixNames : <<b, s>> \in Names
  BY DefinesAssumption DEF Names
\* The variables of that name are left alone, or written as off.
<1>1. ASSUME pc \in {"modifiers", "first"} \cup Late, UNCHANGED <<input, ABSTAGE2, files>>,
             \A s \in SuffixNames : \/ shell'[<<b, s>>] = shell[<<b, s>>]
                                    \/ ~IsOn(shell'[<<b, s>>])
      PROVE  SwitchedBy(shell, ToSet(files))'
  <2>1. ShellStage2 /\ SwitchedBy(shell, ToSet(files)) /\ ToSet(files)' = ToSet(files)
    BY <1>1 DEF SymbolsInv, ShellStage2, ToSet
  <2>2. \A v : IsOn(v)' = IsOn(v)
    BY DEF IsOn
  <2> QED BY <1>1, <2>1 DEF SwitchedBy, IsOn, Last
<1>2. CASE UNCHANGED vars \/ ChooseCompiler
  <2>1. UNCHANGED <<input, ABSTAGE2, shell, files>> /\ pc \in {"modifiers", "first"} \cup Late
    BY <1>2 DEF vars, ChooseCompiler, Late
  <2> QED BY <1>1, <2>1
<1>3. CASE Check
  <2>1. UNCHANGED <<input, ABSTAGE2, files>> /\ pc \in {"modifiers", "first"} \cup Late
    BY <1>3 DEF Check, Late
  <2>2. ~IsOn(Scalar(Lib, PREFIX, FALSE))
    BY DEF IsOn, Scalar, Word
  <2>3. \A s \in SuffixNames : \/ shell'[<<b, s>>] = shell[<<b, s>>]
                               \/ shell'[<<b, s>>] = Scalar(Lib, PREFIX, FALSE)
    BY <1>0, <1>3, CheckWrites
  <2>4. \A s \in SuffixNames : \/ shell'[<<b, s>>] = shell[<<b, s>>]
                               \/ ~IsOn(shell'[<<b, s>>])
    BY <2>2, <2>3
  <2> QED BY <1>1, <2>1, <2>4
<1>4. CASE LoadArch
  <2>1. UNCHANGED <<input, ABSTAGE2, files>> /\ pc \in {"modifiers", "first"} \cup Late
    BY <1>4 DEF LoadArch, Late
  <2>2. \A s \in SuffixNames : shell'[<<b, s>>] = shell[<<b, s>>]
    BY <1>0, <1>4 DEF LoadArch
  <2> QED BY <1>1, <2>1, <2>2
<1>5. CASE ParseModifiers
  <2>1. UNCHANGED <<input, shell, files, ABSTAGE2>> /\ pc = "modifiers"
    BY <1>5 DEF ParseModifiers
  <2> QED BY <1>1, <2>1
<1>6. CASE LoadDefaults
  <2>1. /\ pc = "defaults" /\ ABSTAGE2' = ABSTAGE2 /\ ARCH \in Arches /\ files' = files
        /\ shell' = [n \in Names |->
             IF n[2] # Plain \/ Defaults[n[1]] = "unset" THEN shell[n]
             ELSE Scalar(Lib, "/usr", Defaults[n[1]] = "on" /\ ~(n[1] = "ABSPLITDBG" /\ ShellStage2))]
    BY <1>6 DEF LoadDefaults, TypeInv, Early
  <2>2. ShellStage2
    BY <2>1 DEF ShellStage2
  <2>3. \A s \in ArchSuffixes : shell[<<b, s>>] = Unset
    <3>1. refs \in [Base -> SuffixNames] /\ Data(shell, refs, {})
      <4>1. refs \in [Base -> SuffixNames] /\ files = <<>>
        BY <2>1 DEF TypeInv, TypeOK, Early
      <4>2. Data(shell, refs, ToSet(files))
        BY <2>1 DEF DataInv, Before, Early
      <4>3. ToSet(files) = {}
        BY <4>1 DEF ToSet
      <4> QED BY <4>1, <4>2, <4>3
    <3> QED BY <1>0, <3>1, NothingRead
  <2>4. ASSUME NEW s \in SuffixNames PROVE ~IsOn(shell'[<<b, s>>])
    <3>1. CASE s # Plain
      <4>1. shell'[<<b, s>>] = Unset
        BY <1>0, <2>1, <2>3, <3>1 DEF ArchSuffixes
      <4> QED BY <4>1 DEF IsOn, Unset
    <3>2. CASE s = Plain
      <4>1. shell'[<<b, s>>] = Scalar(Lib, "/usr", FALSE)
        <5>1. (Defaults[b] = "on" /\ ~(b = "ABSPLITDBG" /\ ShellStage2)) = FALSE
          BY <2>2
        <5>2. shell'[<<b, s>>] = Scalar(Lib, "/usr", Defaults[b] = "on" /\ ~(b = "ABSPLITDBG" /\ ShellStage2))
          BY <1>0, <2>1, <3>2
        <5> QED BY <5>1, <5>2
      <4> QED BY <4>1 DEF IsOn, Scalar, Word
    <3> QED BY <3>1, <3>2
  <2> QED BY <2>4 DEF SwitchedBy, IsOn
<1>7. CASE FirstDefines \/ SecondDefines
  <2>1. pc \in {"first", "second"} /\ pc' # "dead" /\ \E next \in {"compiler", "check"} : LoadDefines(next)
    BY <1>7 DEF FirstDefines, SecondDefines, Late
  <2>2. PICK path \in Found : Reading(path)
    BY <2>1, ReadingIs
  <2>3. ShellStage2 /\ input.modifiers # "+stage2"
    BY <2>2 DEF Reading, ShellStage2
  <2>4. ARCH \in Arches /\ SwitchedBy(shell, ToSet(files))
    BY <2>1, <2>3 DEF TypeInv, Early, Late, SymbolsInv
  <2>5. SwitchedBy(shell', ToSet(files'))
    BY <2>2, <2>4, ReadingSwitches
  <2> QED BY <2>5 DEF SwitchedBy, IsOn, Last, ToSet
<1>8. CASE Enable \/ Arguments
  BY <1>8 DEF Enable, Arguments, Late
<1> QED BY <1>2, <1>3, <1>4, <1>5, <1>6, <1>7, <1>8 DEF Next, Ended

-----------------------------------------------------------------------------
(* The arrays of default-flags.sh over a reading.                          *)

\* No two marks are of the same line.
Once(v) ==
  \A i, j \in DOMAIN v.marks :
    v.marks[i].by = v.marks[j].by /\ v.marks[i].line = v.marks[j].line => i = j

\* Every mark is of this reading, up to line k, or was there and is by one of B.
Fresh(v, B, path, k) ==
  /\ Once(v)
  /\ \A i \in DOMAIN v.marks :
        /\ v.marks[i].by \in B \cup {path} /\ v.marks[i].prefix = PREFIX
        /\ v.marks[i].by = path => v.marks[i].line <= k

LEMMA FreshMark ==
  ASSUME NEW path, NEW k \in Nat, NEW m \in Mark, m.by = path, m.line = k + 1, m.prefix = PREFIX,
         NEW B, NEW v, v.marks \in Seq(Mark), Fresh(v, B, path, k),
         NEW w, w.marks = <<m>> \/ w.marks = Append(v.marks, m)
  PROVE  Fresh(w, B, path, k + 1)
<1>1. CASE w.marks = <<m>>
  <2>1. DOMAIN w.marks = {1} /\ w.marks[1] = m
    BY <1>1
  <2> QED BY <2>1 DEF Fresh, Once
<1>2. CASE w.marks = Append(v.marks, m)
  <2> DEFINE n == Len(v.marks)
  <2>1. /\ n \in Nat /\ DOMAIN v.marks = 1..n /\ DOMAIN w.marks = 1..(n + 1)
        /\ w.marks[n + 1] = m /\ \A i \in 1..n : w.marks[i] = v.marks[i]
    <3> DEFINE q == v.marks
    <3>1. q \in Seq(Mark) /\ m \in Mark
      OBVIOUS
    <3> HIDE DEF q
    <3>2. /\ Len(q) \in Nat /\ DOMAIN q = 1..Len(q) /\ DOMAIN Append(q, m) = 1..(Len(q) + 1)
          /\ Append(q, m)[Len(q) + 1] = m /\ \A i \in 1..Len(q) : Append(q, m)[i] = q[i]
      BY <3>1
    <3> QED BY <1>2, <3>2 DEF q
  <2>2. \A i \in 1..n : v.marks[i].line \in Nat
    <3>1. \A i \in DOMAIN v.marks : v.marks[i] \in Mark
      OBVIOUS
    <3>2. \A x \in Mark : x.line \in Nat
      BY DEF Mark
    <3> QED BY <2>1, <3>1, <3>2
  <2> HIDE DEF n
  <2>3. \A i \in 1..(n + 1) : i \in 1..n \/ i = n + 1
    BY <2>1
  <2>4. ASSUME NEW i \in 1..n PROVE ~(v.marks[i].by = path /\ v.marks[i].line = k + 1)
    <3>1. v.marks[i].line \in Nat /\ (v.marks[i].by = path => v.marks[i].line <= k)
      BY <2>1, <2>2 DEF Fresh
    <3> QED BY <3>1
  <2>5. Once(w)
    <3> SUFFICES ASSUME NEW i \in 1..(n + 1), NEW j \in 1..(n + 1),
                        w.marks[i].by = w.marks[j].by, w.marks[i].line = w.marks[j].line
                 PROVE  i = j
      BY <2>1 DEF Once
    <3>1. CASE i \in 1..n /\ j \in 1..n
      BY <2>1, <3>1 DEF Fresh, Once
    <3>2. CASE i = n + 1 \/ j = n + 1
      <4>1. i \in 1..n => FALSE
        BY <2>1, <2>3, <2>4, <3>2
      <4>2. j \in 1..n => FALSE
        BY <2>1, <2>3, <2>4, <3>2
      <4> QED BY <2>3, <4>1, <4>2
    <3> QED BY <2>3, <3>1, <3>2
  <2>6. ASSUME NEW i \in 1..(n + 1)
        PROVE  /\ w.marks[i].by \in B \cup {path} /\ w.marks[i].prefix = PREFIX
               /\ w.marks[i].by = path => w.marks[i].line <= k + 1
    <3>1. CASE i \in 1..n
      <4>1. w.marks[i] = v.marks[i] /\ i \in DOMAIN v.marks /\ v.marks[i].line \in Nat
        BY <2>1, <2>2, <3>1
      <4>2. /\ v.marks[i].by \in B \cup {path} /\ v.marks[i].prefix = PREFIX
            /\ v.marks[i].by = path => v.marks[i].line <= k
        BY <4>1 DEF Fresh
      <4>3. v.marks[i].line <= k => v.marks[i].line <= k + 1
        BY <4>1
      <4> QED BY <4>1, <4>2, <4>3
    <3>2. CASE i = n + 1
      BY <2>1, <3>2
    <3> QED BY <2>3, <3>1, <3>2
  <2> QED BY <2>1, <2>5, <2>6 DEF Fresh
<1> QED BY <1>1, <1>2

\* An array is fresh after a reading that finds NAME fresh, or not written by it.
LEMMA ArrayReading ==
  ASSUME Typed, NEW path \in DOMAIN input.tree, NEW b \in Base, refs[b] = Plain, NEW B,
         Fresh(shell[<<b, Plain>>], B, path, 0),
         \A k \in 1..Len(Lines(path)) :
            Lines(path)[k].base = b /\ Lines(path)[k].op = "append" => Lines(path)[k].as = Plain
  PROVE  \A s \in SuffixNames :
           \/ Fresh(Sourced(path)[<<b, s>>], B, path, Len(Lines(path)))
           \/ /\ s # Plain /\ Sourced(path)[<<b, s>>] = shell[<<b, s>>]
              /\ \A k \in 1..Len(Lines(path)) : ~Writes(path, <<b, s>>, k)
<1> DEFINE n == Len(Lines(path))
           A == After(path)
           Holds(m, s) == \/ Fresh(A[m][<<b, s>>], B, path, m)
                          \/ /\ s # Plain /\ A[m][<<b, s>>] = shell[<<b, s>>]
                             /\ \A k \in 1..m : ~Writes(path, <<b, s>>, k)
           S == {m \in 0..n : \A s \in SuffixNames : Holds(m, s)}
<1>1. /\ n \in Nat /\ A \in [0..n -> Shells] /\ A[0] = shell
      /\ \A k \in 1..n : A[k] = Line(A[k - 1], path, k)
      /\ Plain \in SuffixNames /\ Cell(b) = <<b, Plain>>
      /\ \A s \in SuffixNames : <<b, s>> \in Names
  BY AfterLines, LineFacts DEF SuffixNames, Cell, Names
<1>2. Sourced(path) = A[n]
  BY DEF Sourced, Lines
<1> HIDE DEF n, A
<1>3. 0 \in S
  BY <1>1
<1>4. ASSUME NEW m \in 0..(n - 1), m \in S PROVE m + 1 \in S
  <2>1. m + 1 \in 1..n /\ m + 1 \in 0..n /\ m \in 0..n /\ (m + 1) - 1 = m /\ m \in Nat
    BY <1>1
  <2> SUFFICES ASSUME NEW s \in SuffixNames PROVE Holds(m + 1, s)
    BY <2>1
  <2> DEFINE a == Lines(path)[m + 1]
             mark == MarkOf(path, m + 1, a)
             old == A[m][<<b, s>>]
             plain == A[m][<<b, Plain>>]
             new == A[m + 1][<<b, s>>]
  <2>2. A[m] \in Shells /\ A[m + 1] = Line(A[m], path, m + 1)
    BY <1>1, <2>1
  <2>3. new = IF Writes(path, <<b, s>>, m + 1) THEN Assigned(old, A[m][Cell(a.base)], a, mark) ELSE old
    BY <1>1, <2>1, <2>2, LineStep DEF n, Writes
  <2>4. a \in Assignment /\ mark \in Mark /\ mark.by = path /\ mark.line = m + 1 /\ mark.prefix = PREFIX
    <3>1. a \in Assignment /\ mark \in Mark
      BY <2>1, LineFacts DEF n
    <3> QED BY <3>1 DEF MarkOf
  <2>5. plain.marks \in Seq(Mark) /\ Fresh(plain, B, path, m)
    <3>1. plain \in Value
      BY <1>1, <2>2 DEF Shells
    <3>2. Holds(m, Plain)
      BY <1>1, <1>4
    <3> QED BY <3>1, <3>2 DEF Value
  <2>6. CASE Writes(path, <<b, s>>, m + 1)
    <3>1. a.base = b /\ (a.as = s \/ (a.as = Plain /\ s = Plain))
      BY <2>1, <2>6, WritesOf DEF n
    <3>2. Cell(a.base) = <<b, Plain>> /\ (a.op = "append" => s = Plain)
      BY <1>1, <2>1, <3>1 DEF n
    <3>3. new = Assigned(old, plain, a, mark) /\ (a.op = "append" => old = plain)
      BY <2>3, <2>6, <3>2
    <3> HIDE DEF a, mark, old, plain, new
    <3>4. new.marks = <<mark>> \/ new.marks = Append(plain.marks, mark)
      <4>1. a.op \in {"set", "append", "extend"}
        BY <2>4 DEF Assignment
      <4>2. CASE a.op = "set"
        BY <3>3, <4>2 DEF Assigned
      <4>3. CASE a.op = "append"
        BY <3>3, <4>3 DEF Assigned
      <4>4. CASE a.op = "extend"
        BY <3>3, <4>4 DEF Assigned
      <4> QED BY <4>1, <4>2, <4>3, <4>4
    <3>5. Fresh(new, B, path, m + 1)
      BY <2>1, <2>4, <2>5, <3>4, FreshMark
    <3> QED BY <3>5 DEF new
  <2>7. CASE ~Writes(path, <<b, s>>, m + 1)
    <3>1. new = old /\ \A k \in 1..(m + 1) : k \in 1..m \/ k = m + 1
      BY <2>1, <2>3, <2>7
    <3>2. CASE Fresh(old, B, path, m)
      <4>1. \A i \in DOMAIN old.marks : old.marks[i].line \in Nat
        <5>1. old \in Value
          BY <1>1, <2>2 DEF Shells
        <5> HIDE DEF old
        <5>2. old.marks \in Seq(Mark)
          BY <5>1 DEF Value
        <5>3. \A i \in DOMAIN old.marks : old.marks[i] \in Mark
          BY <5>2
        <5> QED BY <5>3 DEF Mark
      <4> HIDE DEF old, new
      <4>2. Fresh(new, B, path, m + 1)
        BY <2>1, <3>1, <3>2, <4>1 DEF Fresh
      <4> QED BY <4>2 DEF new
    <3>3. CASE /\ s # Plain /\ old = shell[<<b, s>>]
               /\ \A k \in 1..m : ~Writes(path, <<b, s>>, k)
      BY <2>7, <3>1, <3>3
    <3>4. Holds(m, s)
      BY <1>4
    <3> QED BY <3>2, <3>3, <3>4
  <2> QED BY <2>6, <2>7
<1> HIDE DEF S
<1>5. \A m \in 0..(n - 1) : m \in S => m + 1 \in S
  BY <1>4
<1>6. \A m \in 0..n : m \in S
  BY <1>1, <1>3, <1>5, UpTo
<1>7. n \in S
  BY <1>1, <1>6
<1> QED BY <1>2, <1>7 DEF S, n

\* Every mark is of a line of one file, no two of the same.
Said(v, path) == Once(v) /\ \A i \in DOMAIN v.marks : v.marks[i].by = path

ArraysInv ==
  /\ pc \in {"enable"} \cup Early => \A b \in Flags : shell[<<b, Plain>>] = Unset
  /\ pc \in {"compiler", "arch", "second"} =>
        \A b \in Flags : AppendsPlainly(b) => \A s \in ArchSuffixes : Said(shell[<<b, s>>], files[1])

LEMMA UnsetIsFresh ==
  ASSUME NEW B, NEW path
  PROVE  Fresh(Unset, B, path, 0) /\ Said(Unset, path) /\ DOMAIN Unset.marks = {}
BY DEF Fresh, Said, Once, Unset

\* The library's files are no defines files.
LEMMA LibIsNoPath == Lib \notin Paths /\ Arch \notin Paths
BY DefinesAssumption DEF Lib, Arch, Paths, Hosts, Native32, NoArch, Top

LEMMA FileOrder ==
  ASSUME TypeInv, NEW path, Reading(path)
  PROVE  /\ path \in Paths
         /\ files = <<>> => files'[1] = path
         /\ Len(files) = 1 => /\ files'[1] = files[1] /\ files'[2] = path
                              /\ ToSet(files) = {files[1]} /\ files[1] \in Paths
<1>1. files \in Seq(Paths) /\ files' = Append(files, path) /\ path \in DOMAIN input.tree /\ input \in Inputs
  BY DEF TypeInv, TypeOK, Reading
<1>2. path \in Paths
  BY <1>1, InputFacts
<1>3. ASSUME files = <<>> PROVE files'[1] = path
  <2>1. files' = <<path>>
    BY <1>1, <1>3
  <2> QED BY <2>1
<1>4. ASSUME Len(files) = 1
      PROVE  /\ files'[1] = files[1] /\ files'[2] = path
             /\ ToSet(files) = {files[1]} /\ files[1] \in Paths
  <2>1. /\ Len(files') = Len(files) + 1 /\ files'[Len(files')] = path
        /\ \A i \in 1..Len(files) : files'[i] = files[i]
    BY <1>1, <1>2
  <2>2. Len(files') = 2 /\ 1 \in 1..Len(files) /\ DOMAIN files = {1}
    BY <1>1, <1>4, <2>1
  <2>3. files[1] \in Paths
    BY <1>1, <2>2
  <2>4. ToSet(files) = {files[1]}
    BY <2>2 DEF ToSet
  <2> QED BY <2>1, <2>2, <2>3, <2>4
<1> QED BY <1>2, <1>3, <1>4

\* What AppendsPlainly says of the files read so far, after a reading.
LEMMA AppendsBefore ==
  ASSUME TypeInv, NEW path, Reading(path), NEW b \in Base, AppendsPlainly(b)'
  PROVE  /\ AppendsPlainly(b)
         /\ \A k \in 1..Len(Lines(path)) :
              Lines(path)[k].base = b /\ Lines(path)[k].op = "append" => Lines(path)[k].as = Plain
<1>1. ToSet(files)' = ToSet(files) \cup {path} /\ input' = input
  BY DEF Reading, ToSet
<1>2. \A p \in ToSet(files) \cup {path} : \A a \in ToSet(Lines(p)) :
         a.base = b /\ a.op = "append" => a.as = Plain
  <2>1. \A p : ToSet(input.tree[p].lines)' = ToSet(Lines(p))
    BY <1>1 DEF ToSet, Lines
  <2> QED BY <1>1, <2>1 DEF AppendsPlainly
<1>3. \A k \in 1..Len(Lines(path)) : Lines(path)[k] \in ToSet(Lines(path))
  <2>1. Typed /\ path \in DOMAIN input.tree
    BY TypedShell DEF Reading
  <2> QED BY <2>1, LineFacts DEF ToSet
<1> QED BY <1>2, <1>3 DEF AppendsPlainly, Lines

LEMMA FirstArrays ==
  ASSUME TypeInv, DataInv, ArraysInv, pc = "first", NEW path, Reading(path),
         NEW b \in Flags, AppendsPlainly(b)', NEW s \in ArchSuffixes
  PROVE  Said(shell'[<<b, s>>], files'[1])
<1> DEFINE sh == Sourced(path)
<1>1. /\ Typed /\ path \in DOMAIN input.tree /\ b \in Base /\ ARCH \in Arches /\ files = <<>>
      /\ Data(shell, refs, ToSet(files)) /\ ToSet(files) = {} /\ input \in Inputs
      /\ refs \in [Base -> SuffixNames] /\ s \in SuffixNames /\ s # Plain
  <2>1. files = <<>> /\ ARCH \in Arches /\ Data(shell, refs, ToSet(files))
    BY DEF TypeInv, DataInv, Before, Early
  <2>2. ToSet(files) = {}
    BY <2>1 DEF ToSet
  <2> QED BY <2>1, <2>2, TypedShell, DefinesAssumption DEF Reading, Typed, ArchSuffixes
<1>2. refs[b] = Plain /\ shell[<<b, Plain>>] = Unset /\ shell[<<b, s>>] = Unset
  BY <1>1, NothingRead DEF ArraysInv, Early
<1>3. \/ Fresh(sh[<<b, s>>], {}, path, Len(Lines(path)))
      \/ sh[<<b, s>>] = shell[<<b, s>>]
  <2>1. Fresh(shell[<<b, Plain>>], {}, path, 0)
    BY <1>2, UnsetIsFresh
  <2>2. \A k \in 1..Len(Lines(path)) :
           Lines(path)[k].base = b /\ Lines(path)[k].op = "append" => Lines(path)[k].as = Plain
    BY <1>1, AppendsBefore
  <2>3. \A t \in SuffixNames :
           \/ Fresh(sh[<<b, t>>], {}, path, Len(Lines(path)))
           \/ /\ t # Plain /\ sh[<<b, t>>] = shell[<<b, t>>]
              /\ \A k \in 1..Len(Lines(path)) : ~Writes(path, <<b, t>>, k)
    BY <1>1, <1>2, <2>1, <2>2, ArrayReading
  <2> QED BY <1>1, <2>3
<1>4. Said(sh[<<b, s>>], path)
  BY <1>2, <1>3, UnsetIsFresh DEF Fresh, Said
<1>5. shell'[<<b, s>>] = sh[<<b, s>>]
  <2>1. sh \in Shells /\ Data(sh, refs, ToSet(files) \cup {path}) /\ shell' = Copied(sh)
    BY <1>1, ReadingData DEF Reading
  <2> HIDE DEF sh
  <2> QED BY <1>1, <2>1, CopiedKeeps
<1>6. files'[1] = path
  BY <1>1, FileOrder
<1> QED BY <1>4, <1>5, <1>6

LEMMA ArraysStep == TypeInv /\ DataInv /\ ArraysInv /\ [Next]_vars => ArraysInv'
<1> SUFFICES ASSUME TypeInv, DataInv, ArraysInv, [Next]_vars PROVE ArraysInv'
  OBVIOUS
<1>0. \A b \in Flags : b \in Base /\ Defaults[b] = "unset" /\ \A s \in SuffixNames : <<b, s>> \in Names
  BY DefinesAssumption DEF Names
\* Steps that leave the suffixes of these arrays, and the files, as they are.
<1>1. ASSUME UNCHANGED <<input, files>>, pc \in {"compiler", "arch", "second"},
             pc' \in {"compiler", "arch", "second", "dead"},
             \A b \in Flags, s \in ArchSuffixes : shell'[<<b, s>>] = shell[<<b, s>>]
      PROVE  ArraysInv'
  <2>1. pc' \notin {"enable"} \cup Early
    BY <1>1 DEF Early
  <2>2. ASSUME NEW b \in Flags, AppendsPlainly(b)', NEW s \in ArchSuffixes
        PROVE  Said(shell[<<b, s>>], files[1])'
    <3>1. AppendsPlainly(b)
      BY <1>1, <2>2 DEF AppendsPlainly, ToSet
    <3>2. Said(shell[<<b, s>>], files[1])
      BY <1>1, <3>1 DEF ArraysInv
    <3>3. shell'[<<b, s>>] = shell[<<b, s>>]
      BY <1>1
    <3> QED BY <1>1, <3>2, <3>3 DEF Said, Once
  <2> QED BY <2>1, <2>2 DEF ArraysInv
<1>2. ASSUME pc \in {"enable"} \cup Early, pc' \in Early \cup {"enable", "dead"},
             \A b \in Flags : shell'[<<b, Plain>>] = shell[<<b, Plain>>]
      PROVE  ArraysInv'
  BY <1>2 DEF ArraysInv, Early, Unset
<1>3. CASE UNCHANGED vars \/ Ended
  <2>1. UNCHANGED <<input, files, pc, shell>>
    BY <1>3 DEF Ended, vars
  <2>2. CASE pc \in {"enable"} \cup Early
    BY <1>2, <2>1, <2>2
  <2>3. CASE pc \in {"compiler", "arch", "second"}
    BY <1>1, <2>1, <2>3
  <2>4. CASE pc \notin {"enable", "compiler", "arch", "second"} \cup Early
    BY <2>1, <2>4 DEF ArraysInv
  <2> QED BY <2>2, <2>3, <2>4
<1>4. CASE Enable \/ Arguments \/ ParseModifiers
  BY <1>2, <1>4 DEF Enable, Arguments, ParseModifiers, Early
<1>5. CASE LoadDefaults
  <2>1. \A b \in Flags : shell'[<<b, Plain>>] = shell[<<b, Plain>>]
    BY <1>0, <1>5 DEF LoadDefaults, SuffixNames
  <2> QED BY <1>2, <1>5, <2>1 DEF LoadDefaults, Early
<1>6. CASE FirstDefines
  <2>1. CASE pc' = "dead"
    BY <2>1 DEF ArraysInv, Early
  <2>2. CASE pc' # "dead"
    <3>1. pc' = "compiler" /\ pc = "first" /\ \E path \in Found : Reading(path)
      BY <1>6, <2>2, ReadingIs DEF FirstDefines
    <3>2. \A b \in Flags : AppendsPlainly(b)' => \A s \in ArchSuffixes : Said(shell'[<<b, s>>], files'[1])
      BY <3>1, FirstArrays
    <3>3. ASSUME NEW b \in Flags, AppendsPlainly(b)', NEW s \in ArchSuffixes
          PROVE  Said(shell[<<b, s>>], files[1])'
      <4>1. Said(shell'[<<b, s>>], files'[1])
        BY <3>2, <3>3
      <4> QED BY <4>1 DEF Said, Once
    <3> QED BY <3>1, <3>3 DEF ArraysInv, Early
  <2> QED BY <2>1, <2>2
<1>7. CASE ChooseCompiler
  BY <1>1, <1>7 DEF ChooseCompiler
<1>8. CASE LoadArch
  <2>1. pc = "arch" /\ pc' \in {"second", "dead"} /\ UNCHANGED <<input, files>>
    BY <1>8 DEF LoadArch, Die
  <2>2. CASE pc' = "dead"
    BY <2>2 DEF ArraysInv, Early
  <2>3. CASE pc' = "second"
    <3>1. \A b \in Flags, s \in ArchSuffixes : shell'[<<b, s>>] = shell[<<b, s>>]
      <4> SUFFICES ASSUME NEW b \in Flags, NEW s \in ArchSuffixes PROVE shell'[<<b, s>>] = shell[<<b, s>>]
        OBVIOUS
      <4>1. <<b, s>> \in Names /\ s # Plain
        BY <1>0 DEF ArchSuffixes
      <4> QED BY <1>8, <2>3, <4>1, ArchWrites
    <3> QED BY <1>1, <2>1, <3>1
  <2> QED BY <2>1, <2>2, <2>3
<1>9. CASE SecondDefines
  <2>1. pc' \in {"check", "dead"}
    BY <1>9, ReadingIs DEF SecondDefines
  <2> QED BY <2>1 DEF ArraysInv, Early
<1>10. CASE Check
  BY <1>10 DEF Check, ArraysInv, Early
<1> QED BY <1>3, <1>4, <1>5, <1>6, <1>7, <1>8, <1>9, <1>10 DEF Next

\* The arrays after the second reading: no line twice, and the paths of this host.
LEMMA SecondArrays ==
  ASSUME TypeInv, TypeInv', DataInv, FlagsInv, ArraysInv, pc = "second", NEW path, Reading(path),
         NEW b \in Flags, AppendsPlainly(b)'
  PROVE  /\ Once(shell'[<<b, refs'[b]>>])
         /\ \A i \in DOMAIN shell'[<<b, refs'[b]>>].marks :
              shell'[<<b, refs'[b]>>].marks[i].by \in {Lib, path} =>
                shell'[<<b, refs'[b]>>].marks[i].prefix = PREFIX
<1> DEFINE sh == Sourced(path)
<1>1. /\ Typed /\ path \in DOMAIN input.tree /\ b \in Base /\ ARCH \in Arches /\ Len(files) = 1
      /\ Data(shell, refs, ToSet(files)) /\ input \in Inputs /\ path \in Paths
      /\ refs \in [Base -> SuffixNames] /\ ToSet(files) = {files[1]} /\ files[1] \in Paths
      /\ ToSet(files) \in SUBSET (DOMAIN input.tree)
  <2>1. Len(files) = 1 /\ ARCH \in Arches /\ Data(shell, refs, ToSet(files))
    BY DEF TypeInv, DataInv, Before, Late
  <2> QED BY <2>1, FileOrder, TypedShell, DefinesAssumption DEF Reading, Typed, TypeInv
<1>2. refs[b] = Plain /\ shell[<<b, Plain>>] = [kind |-> "array", marks |-> <<Word(Lib, PREFIX, TRUE)>>]
  BY <1>1, FlagsPlain DEF FlagsInv
<1>3. Fresh(shell[<<b, Plain>>], {Lib}, path, 0)
  <2>1. DOMAIN shell[<<b, Plain>>].marks = {1} /\ shell[<<b, Plain>>].marks[1] = Word(Lib, PREFIX, TRUE)
    BY <1>2
  <2> QED BY <2>1 DEF Fresh, Once, Word
<1>4. \A s \in SuffixNames :
         \/ Fresh(sh[<<b, s>>], {Lib}, path, Len(Lines(path)))
         \/ /\ s # Plain /\ sh[<<b, s>>] = shell[<<b, s>>]
            /\ \A k \in 1..Len(Lines(path)) : ~Writes(path, <<b, s>>, k)
  BY <1>1, <1>2, <1>3, AppendsBefore, ArrayReading
<1>5. /\ sh \in Shells /\ Data(sh, refs, ToSet(files) \cup {path})
      /\ Data(shell', refs', ToSet(files) \cup {path})
      /\ shell' = Copied(sh) /\ refs' = Referring(sh) /\ refs' \in [Base -> SuffixNames]
  BY <1>1, ReadingData DEF Reading, TypeInv, TypeOK
<1> HIDE DEF sh
<1>6. refs'[b] = Plain
  <2>1. ToSet(files) \cup {path} \in SUBSET (DOMAIN input.tree)
    BY <1>1
  <2> QED BY <1>1, <1>5, <2>1, FlagsPlain
<1>7. PICK s \in SuffixNames : shell'[<<b, Plain>>] = sh[<<b, s>>]
  BY <1>1, <1>5, CopiedFrom DEF SuffixNames
<1>8. CASE Fresh(sh[<<b, s>>], {Lib}, path, Len(Lines(path)))
  BY <1>6, <1>7, <1>8 DEF Fresh
<1>9. CASE /\ s # Plain /\ sh[<<b, s>>] = shell[<<b, s>>]
           /\ \A k \in 1..Len(Lines(path)) : ~Writes(path, <<b, s>>, k)
  <2>1. Said(shell[<<b, s>>], files[1])
    <3>1. AppendsPlainly(b)
      BY <1>1, AppendsBefore
    <3> QED BY <1>9, <3>1 DEF ArraysInv, ArchSuffixes
  <2>2. CASE files[1] = path
    <3>1. Says(path, b, s) = {}
      BY <1>1, <1>9, SaysLines, WritesOf
    <3>2. shell[<<b, s>>] = Unset
      BY <1>1, <1>9, <2>2, <3>1 DEF Data, Origin, ArchSuffixes
    <3> QED BY <1>6, <1>7, <1>9, <2>1, <3>2, UnsetIsFresh DEF Said
  <2>3. CASE files[1] # path
    <3>1. files[1] # Lib
      BY <1>1, LibIsNoPath
    <3> QED BY <1>6, <1>7, <1>9, <2>1, <2>3, <3>1 DEF Said
  <2> QED BY <2>2, <2>3
<1> QED BY <1>4, <1>8, <1>9

-----------------------------------------------------------------------------
(* The latest mark of a variable that the second file wrote.               *)

LastBy(v, path) == v.marks # <<>> /\ Last(v.marks).by = path

\* NAME is the copy of the array that is tried first.
IsCopy(sh, b) ==
  Hits(sh, b) # {} /\ sh[<<b, First(sh, b)>>].kind = "array" /\ sh[<<b, Plain>>].kind = "array"

\* What a file left in NAME without a line about NAME it left by the copy of an
\* array, and the copy is made again.
CopiesInv ==
  pc \in {"compiler", "arch", "second"} => \A b \in Exported :
    refs[b] = Plain /\ LastBy(shell[<<b, Plain>>], files[1]) /\ Says(files[1], b, Plain) = {} =>
      IsCopy(shell, b)

LEMMA HitsSame ==
  ASSUME ARCH \in Arches, NEW b, NEW sh, NEW sg,
         \A s \in ArchSuffixes : sh[<<b, s>>] # Unset <=> sg[<<b, s>>] # Unset
  PROVE  /\ Hits(sh, b) = Hits(sg, b) /\ First(sh, b) = First(sg, b)
         /\ Hits(sh, b) # {} => First(sh, b) \in ArchSuffixes /\ sh[<<b, First(sh, b)>>] # Unset
<1>1. Aliases \in Seq(ArchSuffixes)
  BY AliasFacts
<1>2. DOMAIN Aliases \subseteq Nat /\ \A i \in DOMAIN Aliases : Aliases[i] \in ArchSuffixes
  BY <1>1
<1>3. Hits(sh, b) = Hits(sg, b)
  BY <1>2 DEF Hits
<1>4. Hits(sh, b) # {} => Min(Hits(sh, b)) \in Hits(sh, b)
  <2>1. Hits(sh, b) \in SUBSET Nat
    BY <1>2 DEF Hits
  <2> QED BY <2>1, LeastIsMin
<1> QED BY <1>2, <1>3, <1>4 DEF First, Hits

LEMMA LastMark ==
  ASSUME NEW sh, NEW F, MarksBy(sh, F), NEW c \in Names, sh[c].marks # <<>>
  PROVE  Last(sh[c].marks).by \in {Lib, Arch} \cup F
<1> DEFINE M == {m \in Mark : m.by \in {Lib, Arch} \cup F}
           q == sh[c].marks
<1>1. q \in Seq(M) /\ q # <<>>
  BY DEF MarksBy
<1> HIDE DEF M, q
<1>2. q[Len(q)] \in M
  BY <1>1
<1> QED BY <1>2 DEF Last, M, q

\* What a reading leaves without writing it was there before.
LEMMA Unwritten ==
  ASSUME Typed, NEW path \in DOMAIN input.tree, NEW b \in Base, NEW s \in SuffixNames
  PROVE  \/ /\ Sourced(path)[<<b, s>>] = shell[<<b, s>>]
            /\ \A k \in 1..Len(Lines(path)) : ~Writes(path, <<b, s>>, k)
         \/ Last(Sourced(path)[<<b, s>>].marks).prefix = PREFIX
<1>1. <<b, s>> \in Names
  BY DEF Names
<1>2. ASSUME NEW k \in 1..Len(Lines(path)), Left(Sourced(path)[<<b, s>>], path, k)
      PROVE  Last(Sourced(path)[<<b, s>>].marks).prefix = PREFIX
  BY <1>2 DEF Left, Last, MarkOf
<1> QED BY <1>1, <1>2, SourcedIsLast

LEMMA FirstCopies ==
  ASSUME TypeInv, DataInv, pc = "first", NEW path, Reading(path), NEW b \in Exported,
         LastBy(shell'[<<b, Plain>>], path), Says(path, b, Plain) = {}
  PROVE  IsCopy(shell', b)
<1> DEFINE sh == Sourced(path)
<1>1. /\ Typed /\ path \in DOMAIN input.tree /\ b \in Base /\ ARCH \in Arches /\ files = <<>>
      /\ Data(shell, refs, ToSet(files)) /\ ToSet(files) = {} /\ input \in Inputs /\ path \in Paths
      /\ refs \in [Base -> SuffixNames] /\ Plain \in SuffixNames /\ <<b, Plain>> \in Names
  <2>1. files = <<>> /\ ARCH \in Arches /\ Data(shell, refs, ToSet(files))
    BY DEF TypeInv, DataInv, Before, Early
  <2>2. ToSet(files) = {}
    BY <2>1 DEF ToSet
  <2> QED BY <2>1, <2>2, FileOrder, TypedShell, DefinesAssumption DEF Reading, Typed, SuffixNames, Names
<1>2. /\ sh \in Shells /\ Data(sh, refs, ToSet(files) \cup {path}) /\ shell' = Copied(sh)
  BY <1>1, ReadingData DEF Reading
<1>3. refs[b] = Plain /\ Cell(b) = <<b, Plain>>
  BY <1>1, NothingRead DEF Cell
<1>4. sh[<<b, Plain>>] = shell[<<b, Plain>>]
  <2>1. \A k \in 1..Len(Lines(path)) : ~Writes(path, <<b, Plain>>, k)
    BY <1>1, WritesOf, SaysLines
  <2> QED BY <1>1, <2>1, SourcedIsLast DEF LastWriter
<1> HIDE DEF sh
<1>5. ~LastBy(sh[<<b, Plain>>], path)
  <2>1. MarksBy(shell, {})
    BY <1>1 DEF Data
  <2> QED BY <1>1, <1>4, <2>1, LastMark, LibIsNoPath DEF LastBy
<1>6. shell'[<<b, Plain>>] = IF Takes(sh, b, "array") THEN sh[Source(sh, b)] ELSE sh[<<b, Plain>>]
  BY <1>1, <1>2, <1>3 DEF Copied
<1>7. Takes(sh, b, "array")
  BY <1>5, <1>6
<1>8. LoadedVar(sh, b) # Plain /\ sh[<<b, LoadedVar(sh, b)>>].kind = "array"
      /\ shell'[<<b, Plain>>] = sh[<<b, LoadedVar(sh, b)>>]
  BY <1>6, <1>7 DEF Takes, Source
<1>9. Hits(sh, b) # {} /\ LoadedVar(sh, b) = First(sh, b)
  BY <1>1, <1>8, Loaded DEF First
<1>10. \A s \in ArchSuffixes : shell'[<<b, s>>] = sh[<<b, s>>]
  BY <1>1, <1>2, CopiedKeeps
<1>11. Hits(shell', b) = Hits(sh, b) /\ First(shell', b) = First(sh, b) /\ First(sh, b) \in ArchSuffixes
  BY <1>1, <1>9, <1>10, HitsSame
<1> QED BY <1>8, <1>9, <1>10, <1>11 DEF IsCopy

LEMMA CopiesStep == TypeInv /\ DataInv /\ CopiesInv /\ [Next]_vars => CopiesInv'
<1> SUFFICES ASSUME TypeInv, DataInv, CopiesInv, [Next]_vars, pc' \in {"compiler", "arch", "second"},
                    NEW b \in Exported, refs'[b] = Plain, LastBy(shell'[<<b, Plain>>], files'[1]),
                    Says(files[1], b, Plain)' = {}
             PROVE  IsCopy(shell, b)'
  BY DEF CopiesInv, LastBy, Last
<1>1. ASSUME UNCHANGED <<ARCH>>, IsCopy(shell', b) PROVE IsCopy(shell, b)'
  BY <1>1 DEF IsCopy, Hits, First, Aliases
<1>2. CASE UNCHANGED vars \/ Ended \/ ChooseCompiler
  <2>1. UNCHANGED <<input, ARCH, shell, refs, files>> /\ pc \in {"compiler", "arch", "second"}
    BY <1>2 DEF Ended, vars, arches, ChooseCompiler
  <2>2. Says(files[1], b, Plain) = {}
    BY <2>1 DEF Says
  <2>3. IsCopy(shell, b)
    BY <2>1, <2>2 DEF CopiesInv
  <2> QED BY <1>1, <2>1, <2>3
<1>3. CASE FirstDefines \/ SecondDefines
  <2>1. pc = "first" /\ \E path \in Found : Reading(path)
    BY <1>3, ReadingIs DEF FirstDefines, SecondDefines
  <2>2. PICK path \in Found : Reading(path)
    BY <2>1
  <2>3. files'[1] = path /\ UNCHANGED <<input, ARCH>>
    BY <2>1, <2>2, FileOrder DEF TypeInv, Early, Reading
  <2>4. Says(path, b, Plain) = {}
    BY <2>3 DEF Says
  <2> QED BY <1>1, <2>1, <2>2, <2>3, <2>4, FirstCopies
<1>4. CASE LoadArch
  <2>1. /\ pc = "arch" /\ pc' = "second" /\ UNCHANGED <<input, ARCH, refs, files>> /\ ARCH \in Arches
        /\ Len(files) = 1 /\ files \in Seq(Paths)
    BY <1>4 DEF LoadArch, Die, arches, TypeInv, TypeOK, Late
  <2>2. files[1] \in Paths /\ files[1] # Lib /\ files[1] # Arch
    <3>1. files[1] \in Paths
      BY <2>1
    <3> QED BY <3>1, LibIsNoPath
  <2>3. b \in Base /\ Plain \in SuffixNames /\ \A s \in SuffixNames : <<b, s>> \in Names
    BY DefinesAssumption DEF SuffixNames, Names
  <2>4. \A v : Last(FlagsOf(v).marks).by = Lib
    BY DEF FlagsOf, Last, Word
  <2>5. Last(Scalar(Arch, PrefixOf(ABHOST), TRUE).marks).by = Arch
    BY DEF Scalar, Last, Word
  <2>6. \A c \in Names :
           \/ shell'[c] = shell[c]
           \/ c[1] \in Flags /\ c[2] = Plain /\ shell'[c] = FlagsOf(shell[c])
           \/ c = Cell(c[1]) /\ shell'[c] = Scalar(Arch, PrefixOf(ABHOST), TRUE)
    BY <1>4, <2>1, ArchWrites
  <2>7. shell'[<<b, Plain>>] = shell[<<b, Plain>>]
    BY <2>1, <2>2, <2>3, <2>4, <2>5, <2>6 DEF LastBy
  <2>8. \A s \in ArchSuffixes : shell'[<<b, s>>] = shell[<<b, s>>]
    <3> SUFFICES ASSUME NEW s \in ArchSuffixes PROVE shell'[<<b, s>>] = shell[<<b, s>>]
      OBVIOUS
    <3>1. <<b, s>> \in Names /\ s # Plain /\ Cell(b) # <<b, s>>
      BY <2>1, <2>3 DEF ArchSuffixes, Cell
    <3> QED BY <2>6, <3>1
  <2>9. Says(files[1], b, Plain) = {}
    BY <2>1 DEF Says
  <2>10. IsCopy(shell, b)
    BY <2>1, <2>7, <2>9 DEF CopiesInv
  <2>11. Hits(shell', b) = Hits(shell, b) /\ First(shell', b) = First(shell, b) /\ First(shell, b) \in ArchSuffixes
    BY <2>1, <2>8, <2>10, HitsSame DEF IsCopy
  <2>12. IsCopy(shell', b)
    BY <2>7, <2>8, <2>10, <2>11 DEF IsCopy
  <2> QED BY <1>1, <2>1, <2>12
<1>5. CASE Enable \/ Arguments \/ LoadDefaults \/ ParseModifiers \/ Check
  BY <1>5 DEF Enable, Arguments, LoadDefaults, ParseModifiers, Check
<1> QED BY <1>2, <1>3, <1>4, <1>5 DEF Next

\* The latest mark, when it is of the second file, is of the second reading.
LEMMA SecondPaths ==
  ASSUME TypeInv, DataInv, CopiesInv, pc = "second", NEW path, Reading(path), NEW b \in Exported,
         LastBy(shell'[<<b, refs'[b]>>], path)
  PROVE  Last(shell'[<<b, refs'[b]>>].marks).prefix = PREFIX
<1> DEFINE sh == Sourced(path)
<1>1. /\ Typed /\ path \in DOMAIN input.tree /\ b \in Base /\ ARCH \in Arches /\ Len(files) = 1
      /\ Data(shell, refs, ToSet(files)) /\ input \in Inputs /\ path \in Paths
      /\ refs \in [Base -> SuffixNames] /\ ToSet(files) = {files[1]} /\ files[1] \in Paths
      /\ Plain \in SuffixNames /\ \A s \in SuffixNames : <<b, s>> \in Names
  <2>1. Len(files) = 1 /\ ARCH \in Arches /\ Data(shell, refs, ToSet(files))
    BY DEF TypeInv, DataInv, Before, Late
  <2> QED BY <2>1, FileOrder, TypedShell, DefinesAssumption DEF Reading, Typed, SuffixNames, Names
<1>2. /\ sh \in Shells /\ Data(sh, refs, {files[1]} \cup {path})
      /\ shell' = Copied(sh) /\ refs' = Referring(sh)
  BY <1>1, ReadingData DEF Reading
\* What was not written is of the first reading, by the same file, and no suffix.
<1>3. ASSUME NEW t \in SuffixNames, LastBy(sh[<<b, t>>], path),
             Last(sh[<<b, t>>].marks).prefix # PREFIX
      PROVE  /\ t = Plain /\ files[1] = path /\ sh[<<b, Plain>>] = shell[<<b, Plain>>]
             /\ \A k \in 1..Len(Lines(path)) : ~Writes(path, <<b, Plain>>, k)
  <2>1. /\ sh[<<b, t>>] = shell[<<b, t>>]
        /\ \A k \in 1..Len(Lines(path)) : ~Writes(path, <<b, t>>, k)
    BY <1>1, <1>3, Unwritten
  <2> HIDE DEF sh
  <2>2. LastBy(shell[<<b, t>>], path)
    BY <1>3, <2>1
  <2>3. files[1] = path
    <3>1. MarksBy(shell, {files[1]}) /\ shell[<<b, t>>].marks # <<>>
      BY <1>1, <2>2 DEF Data, LastBy
    <3>2. Last(shell[<<b, t>>].marks).by \in {Lib, Arch} \cup {files[1]}
      BY <1>1, <3>1, LastMark
    <3> QED BY <1>1, <2>2, <3>2, LibIsNoPath DEF LastBy
  <2>4. t = Plain
    <3> SUFFICES ASSUME t # Plain PROVE FALSE
      OBVIOUS
    <3>1. t \in ArchSuffixes /\ shell[<<b, t>>] # Unset
      BY <2>2 DEF ArchSuffixes, LastBy, Unset
    <3>2. Says(path, b, t) # {}
      BY <1>1, <2>3, <3>1 DEF Data, Origin
    <3>3. PICK k \in 1..Len(Lines(path)) : Lines(path)[k].base = b /\ Lines(path)[k].as = t
      BY <1>1, <3>2, SaysLines
    <3> QED BY <1>1, <2>1, <3>3, WritesOf
  <2> QED BY <2>1, <2>3, <2>4
<1> HIDE DEF sh
<1>4. CASE refs'[b] # Plain
  <2>1. refs'[b] \in ArchSuffixes /\ refs'[b] \in SuffixNames
    <3>1. Referring(sh) \in [Base -> SuffixNames]
      <4>1. ShellOK
        BY <1>1 DEF ShellOK, Typed
      <4> QED BY <1>1, <1>2, <4>1, CopiedTypes
    <3> QED BY <1>1, <1>2, <1>4, <3>1 DEF ArchSuffixes
  <2>2. shell'[<<b, refs'[b]>>] = sh[<<b, refs'[b]>>]
    BY <1>1, <1>2, <2>1, CopiedKeeps
  <2> QED BY <1>3, <1>4, <2>1, <2>2
<1>5. CASE refs'[b] = Plain /\ Takes(sh, b, "array")
  <2>1. LoadedVar(sh, b) \in SuffixNames /\ LoadedVar(sh, b) # Plain
    BY <1>1, <1>5, Loaded DEF Takes, ArchSuffixes
  <2>2. refs[b] = Plain /\ Cell(b) = <<b, Plain>>
    BY <1>1, <1>2, <1>5, CopiedKeeps DEF Cell
  <2>3. shell'[<<b, Plain>>] = sh[<<b, LoadedVar(sh, b)>>]
    BY <1>1, <1>2, <1>5, <2>2 DEF Copied, Source
  <2> QED BY <1>3, <1>5, <2>1, <2>3
<1>6. CASE refs'[b] = Plain /\ ~Takes(sh, b, "array")
  <2>1. refs[b] = Plain /\ Cell(b) = <<b, Plain>>
    <3>1. refs'[b] = IF Takes(sh, b, "scalar") THEN LoadedVar(sh, b) ELSE refs[b]
      BY <1>1, <1>2 DEF Referring
    <3> QED BY <1>6, <3>1 DEF Takes, Cell
  <2>2. shell'[<<b, Plain>>] = sh[<<b, Plain>>]
    BY <1>1, <1>2, <1>6 DEF Copied
  <2> SUFFICES ASSUME Last(sh[<<b, Plain>>].marks).prefix # PREFIX PROVE FALSE
    BY <1>6, <2>2
  <2>3. /\ files[1] = path /\ sh[<<b, Plain>>] = shell[<<b, Plain>>]
        /\ \A k \in 1..Len(Lines(path)) : ~Writes(path, <<b, Plain>>, k)
    BY <1>1, <1>3, <1>6, <2>2
  <2>4. Says(path, b, Plain) = {}
    BY <1>1, <2>1, <2>3, SaysLines, WritesOf
  <2>5. IsCopy(shell, b)
    BY <1>6, <2>1, <2>2, <2>3, <2>4 DEF CopiesInv
  <2>6. ASSUME NEW s \in ArchSuffixes PROVE sh[<<b, s>>] # Unset <=> shell[<<b, s>>] # Unset
    <3>1. {files[1]} \cup {path} = {path}
      BY <2>3
    <3> QED BY <1>1, <1>2, <2>3, <3>1 DEF Data, Origin
  <2>7. /\ Hits(sh, b) = Hits(shell, b) /\ First(sh, b) = First(shell, b) /\ Hits(sh, b) # {}
        /\ First(sh, b) \in ArchSuffixes /\ sh[<<b, First(sh, b)>>] # Unset
    BY <1>1, <2>5, <2>6, HitsSame DEF IsCopy
  <2>8. sh[<<b, First(sh, b)>>].kind = "array"
    <3>1. Says(path, b, First(sh, b)) # {}
      BY <1>1, <1>2, <2>3, <2>7 DEF Data, Origin
    <3>2. PICK k \in 1..Len(Lines(path)) : Lines(path)[k].base = b /\ Lines(path)[k].as = First(sh, b)
      BY <1>1, <2>7, <3>1, SaysLines DEF ArchSuffixes
    <3>3. Lines(path)[k] \in AllLines /\ Lines(path)[k].as # Plain
      BY <1>1, <2>7, <3>2, WritesOf DEF ArchSuffixes
    <3>4. sh[<<b, First(sh, b)>>].kind = Lines(path)[k].kind
      BY <1>2, <2>7, <3>2, <3>3 DEF Data, Kinds
    <3>5. shell[<<b, First(sh, b)>>].kind = Lines(path)[k].kind
      BY <1>1, <2>6, <2>7, <3>2, <3>3 DEF Data, Kinds
    <3> QED BY <2>5, <2>7, <3>4, <3>5 DEF IsCopy
  <2>9. sh[Cell(b)].kind = "array"
    BY <2>1, <2>3, <2>5 DEF IsCopy
  <2>10. LoadedVar(sh, b) = First(sh, b) /\ First(sh, b) # Plain
    BY <1>1, <2>7, <2>8, <2>9, Loaded DEF First, ArchSuffixes
  <2> QED BY <1>6, <2>8, <2>10 DEF Takes, Source
<1> QED BY <1>4, <1>5, <1>6

PathsAgree(b) ==
  /\ b \in Flags /\ AppendsPlainly(b) =>
       \A i \in DOMAIN Plainly(b).marks :
         Plainly(b).marks[i].by \in {Lib, files[2]} => Plainly(b).marks[i].prefix = PREFIX
  /\ LastBy(Plainly(b), files[2]) => Last(Plainly(b).marks).prefix = PREFIX

PathsInv == pc \in {"check", "ready"} => \A b \in Exported : PathsAgree(b)
OnceInv  == pc \in {"check", "ready"} => \A b \in Flags : AppendsPlainly(b) => Once(Plainly(b))

\* The end of the script leaves a value alone or writes one mark with these paths.
LEMMA EndPlainly ==
  ASSUME TypeInv, NEW b \in Base, UNCHANGED vars \/ Check
  PROVE  /\ UNCHANGED <<input, ARCH, refs, files, PREFIX>>
         /\ \/ Plainly(b)' = Plainly(b)
            \/ Plainly(b)' = Scalar(Lib, PREFIX, FALSE)
<1>1. UNCHANGED <<input, ARCH, refs, files, PREFIX>>
  BY DEF vars, arches, Check
<1>2. refs[b] \in SuffixNames /\ Plainly(b)' = shell'[<<b, refs[b]>>] /\ Plainly(b) = shell[<<b, refs[b]>>]
  BY <1>1 DEF TypeInv, TypeOK, Plainly, Cell
<1>3. CASE UNCHANGED vars
  BY <1>1, <1>2, <1>3 DEF vars
<1>4. CASE Check
  BY <1>1, <1>2, <1>4, CheckWrites
<1> QED BY <1>1, <1>3, <1>4

LEMMA PathsStep ==
  TypeInv /\ TypeInv' /\ DataInv /\ FlagsInv /\ ArraysInv /\ CopiesInv /\ PathsInv /\ OnceInv /\ [Next]_vars
    => PathsInv' /\ OnceInv'
<1> SUFFICES ASSUME TypeInv, TypeInv', DataInv, FlagsInv, ArraysInv, CopiesInv, PathsInv, OnceInv, [Next]_vars,
                    pc' \in {"check", "ready"}
             PROVE  /\ \A b \in Exported : PathsAgree(b)'
                    /\ \A b \in Flags : AppendsPlainly(b)' => Once(Plainly(b))'
  BY DEF PathsInv, OnceInv
<1>0. Exported \subseteq Base /\ Flags \subseteq Base
  BY DefinesAssumption
<1>1. CASE UNCHANGED vars \/ Check
  <2>1. pc \in {"check", "ready"}
    BY <1>1 DEF vars, Check
  <2> DEFINE w == Scalar(Lib, PREFIX, FALSE)
  <2>2. DOMAIN w.marks = {1} /\ w.marks[1].prefix = PREFIX /\ Last(w.marks).prefix = PREFIX
    BY DEF Scalar, Word, Last
  <2> HIDE DEF w
  <2>3. ASSUME NEW b \in Base
        PROVE  /\ AppendsPlainly(b)' = AppendsPlainly(b) /\ files' = files /\ PREFIX' = PREFIX
               /\ Plainly(b)' = Plainly(b) \/ Plainly(b)' = w
    <3>1. UNCHANGED <<input, files, PREFIX>> /\ (Plainly(b)' = Plainly(b) \/ Plainly(b)' = w)
      BY <1>1, EndPlainly DEF w
    <3> QED BY <3>1 DEF AppendsPlainly, ToSet
  <2>4. ASSUME NEW b \in Exported PROVE PathsAgree(b)'
    <3>1. PathsAgree(b)
      BY <2>1 DEF PathsInv
    <3>2. CASE Plainly(b)' = Plainly(b)
      BY <1>0, <2>3, <3>1, <3>2 DEF PathsAgree, LastBy, Last
    <3>3. CASE Plainly(b)' = w
      BY <1>0, <2>2, <2>3, <3>3 DEF PathsAgree, LastBy, Last
    <3> QED BY <1>0, <2>3, <3>2, <3>3
  <2>5. ASSUME NEW b \in Flags, AppendsPlainly(b)' PROVE Once(Plainly(b))'
    <3>1. Once(Plainly(b))
      BY <1>0, <2>1, <2>3, <2>5 DEF OnceInv
    <3>2. CASE Plainly(b)' = Plainly(b)
      BY <3>1, <3>2 DEF Once
    <3>3. CASE Plainly(b)' = w
      BY <2>2, <3>3 DEF Once
    <3> QED BY <1>0, <2>3, <3>2, <3>3
  <2> QED BY <2>4, <2>5
<1>2. CASE SecondDefines
  <2>1. pc = "second" /\ LoadDefines("check") /\ pc' # "dead"
    BY <1>2 DEF SecondDefines
  <2>2. PICK path \in Found : Reading(path)
    BY <2>1, ReadingIs
  <2>3. files'[2] = path /\ PREFIX' = PREFIX
    BY <2>1, <2>2, FileOrder DEF TypeInv, Late, Reading
  <2>4. \A b : Plainly(b)' = shell'[<<b, refs'[b]>>]
    BY DEF Plainly, Cell
  <2>5. ASSUME NEW b \in Exported PROVE PathsAgree(b)'
    <3>1. ASSUME b \in Flags, AppendsPlainly(b)', NEW i \in DOMAIN Plainly(b)'.marks,
                 Plainly(b)'.marks[i].by \in {Lib, path}
          PROVE  Plainly(b)'.marks[i].prefix = PREFIX
      BY <2>1, <2>2, <2>4, <3>1, SecondArrays
    <3>2. ASSUME LastBy(Plainly(b)', path) PROVE Last(Plainly(b)'.marks).prefix = PREFIX
      BY <2>1, <2>2, <2>4, <3>2, SecondPaths
    <3> QED BY <2>3, <3>1, <3>2 DEF PathsAgree, LastBy, Last
  <2>6. ASSUME NEW b \in Flags, AppendsPlainly(b)' PROVE Once(Plainly(b))'
    <3>1. Once(Plainly(b)')
      BY <2>1, <2>2, <2>4, <2>6, SecondArrays
    <3> QED BY <3>1 DEF Once
  <2> QED BY <2>5, <2>6
<1>3. CASE FirstDefines
  BY <1>3, ReadingIs DEF FirstDefines
<1>4. CASE Enable \/ Arguments \/ LoadDefaults \/ ParseModifiers \/ ChooseCompiler \/ LoadArch
  BY <1>4 DEF Enable, Arguments, LoadDefaults, ParseModifiers, ChooseCompiler, LoadArch, Die
<1> QED BY <1>1, <1>2, <1>3, <1>4 DEF Next, Ended

ArrayInvs == ArraysInv /\ CopiesInv /\ PathsInv /\ OnceInv

LEMMA ArrayInvsInit == Init => ArrayInvs
<1> SUFFICES ASSUME Init PROVE ArrayInvs
  OBVIOUS
<1>1. \A b \in Flags : <<b, Plain>> \in Names
  BY DefinesAssumption DEF Names, SuffixNames
<1> QED BY <1>1 DEF Init, ArrayInvs, ArraysInv, CopiesInv, PathsInv, OnceInv

LEMMA ArrayInvsStep ==
  TypeInv /\ TypeInv' /\ DataInv /\ FlagsInv /\ ArrayInvs /\ [Next]_vars => ArrayInvs'
BY ArraysStep, CopiesStep, PathsStep DEF ArrayInvs

\* Every variable of the model keeps its type; the stage stays one of the words
\* that `bool' and the plugin can meet.
THEOREM TypeCorrect == Spec => []TypeOK
<1>1. TypeInv => TypeOK
  BY DEF TypeInv
<1> QED BY <1>1, TypeInit, TypeStep, PTL DEF Spec

\* Whatever a package says of ABHOST, and whichever files the two readings
\* find, the compiler, the architecture file and the paths are those of the
\* host the run ends up with.
THEOREM OneHost == Spec => []HostAgrees
<1>1. HostInv => HostAgrees
  BY DEF HostInv, HostAgrees, Ready, Late
<1> QED BY <1>1, HostInit, HostStep, PTL DEF Spec

\* The package has the last word on an exported variable, and says it with its
\* most specific name, for every tree, set of groups and search order: neither a
\* default nor the architecture file nor default-flags.sh keeps what it wrote in
\* between, and NAME is then the same variable as the specific one.
THEOREM SpecificVariablesWin == Spec => []SpecificWins
<1> DEFINE I == TypeInv /\ DataInv /\ FlagsInv /\ WinsInv
<1>1. Init => I
  BY TypeInit, DataInit, FlagsInit DEF Init, WinsInv
<1>2. I /\ [Next]_vars => I'
  BY TypeStep, DataStep, FlagsStep, WinsStep
<1>3. I => SpecificWins
  BY DEF WinsInv, SpecificWins, Ready, Wins, Special, Best
<1> QED BY <1>1, <1>2, <1>3, PTL DEF Spec

\* In stage 2 no file of the library leaves ABSPLITDBG on, under whichever name
\* it is read: if it is on, a defines file of the package switched it on.
THEOREM NoSymbolsInStage2 == Spec => []SymbolsOffInStage2
<1> DEFINE I == TypeInv /\ DataInv /\ SymbolsInv
<1>1. Init => I
  BY TypeInit, DataInit DEF Init, SymbolsInv, Late
<1>2. I /\ [Next]_vars => I'
  BY TypeStep, DataStep, SymbolsStep
<1>3. I => SymbolsOffInStage2
  <2> SUFFICES ASSUME I, Ready, ShellStage2, input.modifiers # "+stage2", Bool("ABSPLITDBG")
               PROVE  Latest("ABSPLITDBG").by \in ToSet(files)
    BY DEF SymbolsOffInStage2
  <2>1. SwitchedBy(shell, ToSet(files))
    BY DEF SymbolsInv, Ready, Late
  <2>2. refs["ABSPLITDBG"] \in SuffixNames
    BY DefinesAssumption DEF TypeInv, TypeOK
  <2> QED BY <2>1, <2>2 DEF SwitchedBy, Bool, Latest, Plainly, Cell
<1> QED BY <1>1, <1>2, <1>3, PTL DEF Spec

\* What was computed from $PREFIX is computed from the paths of the final host,
\* for every package: all of an array that default-flags.sh assigns, unless a
\* file appends to NAME__X, and the latest mark of the second defines file.
THEOREM PathsAreFinal == Spec => []FinalPaths
<1> DEFINE I == TypeInv /\ DataInv /\ FlagsInv /\ ArrayInvs
<1>1. Init => I
  BY TypeInit, DataInit, FlagsInit, ArrayInvsInit
<1>2. I /\ [Next]_vars => I'
  BY TypeStep, DataStep, FlagsStep, ArrayInvsStep
<1>3. I => FinalPaths
  <2> SUFFICES ASSUME I, Ready, NEW b \in Exported, NEW i \in DOMAIN Plainly(b).marks,
                      \/ b \in Flags /\ AppendsPlainly(b) /\ Plainly(b).marks[i].by \in {Lib, files[2]}
                      \/ i = Len(Plainly(b).marks) /\ Plainly(b).marks[i].by = files[2]
               PROVE  Plainly(b).marks[i].prefix = PREFIX
    BY DEF FinalPaths
  <2>1. PathsAgree(b)
    BY DEF ArrayInvs, PathsInv, Ready
  <2>2. Plainly(b).marks # <<>>
    OBVIOUS
  <2> QED BY <2>1, <2>2 DEF PathsAgree, LastBy, Last
<1> QED BY <1>1, <1>2, <1>3, PTL DEF Spec

\* A line of a defines file adds once to an array that default-flags.sh assigns
\* between the two readings, for every package that does not append to NAME__X.
THEOREM ArraysAppendedOnce == Spec => []AppendedOnce
<1> DEFINE I == TypeInv /\ DataInv /\ FlagsInv /\ ArrayInvs
<1>1. Init => I
  BY TypeInit, DataInit, FlagsInit, ArrayInvsInit
<1>2. I /\ [Next]_vars => I'
  BY TypeStep, DataStep, FlagsStep, ArrayInvsStep
<1>3. I => AppendedOnce
  BY DEF ArrayInvs, OnceInv, Once, AppendedOnce, Ready
<1> QED BY <1>1, <1>2, <1>3, PTL DEF Spec
=============================================================================
