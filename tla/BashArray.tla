------------------------------ MODULE BashArray ------------------------------
(***************************************************************************)
(* bash's array variables and the builtins of abnativefunctions.cpp that   *)
(* change them behind bash's back.  An array is a ring of cells, linked    *)
(* both ways through its head, with a roving pointer (lastref), a number   *)
(* of elements (indices are left out).  The plugin appends at lastref and  *)
(* unlinks cells itself; bash appends before the head, and looks elements  *)
(* up from lastref.  A call is a sequence of steps, one per turn of its    *)
(* loop.                                                                   *)
(*                                                                         *)
(* The head of array a is the node a.  stage tells how far a script has    *)
(* got with an array: OwnScripts restricts the calls to the orders the     *)
(* program's own scripts use (arch/, 12-arch-flags.sh, 50-build-exec.sh,   *)
(* 51-build-hwcaps.sh); else any script may call anything at any time.     *)
(***************************************************************************)
EXTENDS Integers, Sequences, FiniteSets

CONSTANTS
    Arrays, Cells,      \* variables, and the memory for their elements
    Words, Trap,        \* words, and "---PLEASE_MIGRATE_TO_ARRAY---"
    Files,              \* files ab_read_listing_file may read, as sequences of lines
    Comment,            \* a line that starts with #
    Null, OwnScripts

ASSUME ArrayAssumption ==
    /\ Arrays \cap Cells = {} /\ Null \notin Arrays \cup Cells
    /\ Trap \notin Words \cup {Null} /\ Comment \notin Words
    /\ Files \subseteq Seq(Words \cup {Comment}) /\ IsFiniteSet(Cells)
    /\ OwnScripts \in BOOLEAN

Nodes == Arrays \cup Cells

VARIABLES
    next, prev,         \* the links of heads and cells
    value,              \* the word of a cell
    owner,              \* the array a cell was created for; Null when it is free
    lastref, num_elements,
    stage,
    pc, ae, dst, src, to_remove, lines,  \* the call that is running, its cursor, its arguments
    before              \* the arrays as they were when it started

ring == <<next, prev, value, owner, lastref, num_elements>>
call == <<ae, dst, src, to_remove, lines, before>>
vars == <<ring, stage, pc, call>>

Live == {c \in Cells : owner[c] # Null}

Stages == {"unset", "fresh", "roved", "pushed", "mined", "cleared"}

Init ==
    /\ next = [n \in Nodes |-> IF n \in Arrays THEN n ELSE Null]
    /\ prev = next
    /\ value = [c \in Cells |-> Null] /\ owner = [c \in Cells |-> Null]
    /\ lastref = [a \in Arrays |-> Null]
    /\ num_elements = [a \in Arrays |-> 0]
    /\ stage = [a \in Arrays |-> "unset"]
    /\ pc = "idle" /\ ae = Null /\ dst = Null /\ src = Null
    /\ to_remove = {} /\ lines = <<>> /\ before = [a \in Arrays |-> <<>>]

-----------------------------------------------------------------------------
(* The words of an array, as "${a[@]}", ab_join_elements and               *)
(* ab_concatarray find them: from the head along next until the head.      *)

Walk(link, a) ==
    LET steps == 0..Cardinality(Cells)
        at[k \in steps] ==
          IF k = 0 THEN link[a]
          ELSE IF at[k - 1] \in Cells THEN link[at[k - 1]] ELSE at[k - 1]
    IN [k \in 1..Cardinality({j \in steps : at[j] \in Cells}) |-> at[k - 1]]

List(a) == LET walk == Walk(next, a) IN [k \in DOMAIN walk |-> value[walk[k]]]
Lists   == [a \in Arrays |-> List(a)]

\* The cells of that walk: those in every set that holds the head and is closed under next.
Reached(a) ==
    {c \in Cells : \A S \in SUBSET Nodes :
        a \in S /\ {next[n] : n \in S} \subseteq S \cup {Null} => c \in S}

-----------------------------------------------------------------------------
(* The cells.                                                              *)

New == CHOOSE c \in Cells : owner[c] = Null

\* array_create_element: a cell for word w of array a.
Create(a, w) ==
    /\ value' = [value EXCEPT ![New] = w]
    /\ owner' = [owner EXCEPT ![New] = a]

\* array_dispose_element
Dispose(c) ==
    /\ value' = [value EXCEPT ![c] = Null]
    /\ owner' = [owner EXCEPT ![c] = Null]

\* Mistake: num_elements is left to bash.
PushUncounted(a, w) ==
    LET last == lastref[a] IN
    /\ Create(a, w)
    /\ prev' = [prev EXCEPT ![New] = last]
    /\ next' = IF last # Null THEN [next EXCEPT ![New] = next[last], ![last] = New]
               ELSE [next EXCEPT ![a] = New, ![New] = a]
    /\ lastref' = [lastref EXCEPT ![a] = New]
    /\ UNCHANGED num_elements

\* The plugin appends at lastref; the head's back link stays where it is.
bash_array_push(a, w) ==
    LET last == lastref[a] IN
    /\ Create(a, w)
    /\ prev' = [prev EXCEPT ![New] = last]
    /\ next' = IF last # Null THEN [next EXCEPT ![New] = next[last], ![last] = New]
               ELSE [next EXCEPT ![a] = New, ![New] = a]
    /\ lastref' = [lastref EXCEPT ![a] = New]
    /\ num_elements' = [num_elements EXCEPT ![a] = @ + 1]

\* bash appends before the head.
array_insert(a, w) ==
    /\ Create(a, w)
    /\ prev' = [prev EXCEPT ![New] = prev[a], ![a] = New]
    /\ next' = [next EXCEPT ![New] = a, ![prev[a]] = New]
    /\ lastref' = [lastref EXCEPT ![a] = New]
    /\ num_elements' = [num_elements EXCEPT ![a] = @ + 1]

\* The process ends: out of memory, or a pointer that leads nowhere.
Dies == pc' = "dead" /\ UNCHANGED <<ring, stage, call>>

-----------------------------------------------------------------------------
(* What scripts do with arrays.                                            *)

May(a, S) == pc = "idle" /\ (OwnScripts => stage[a] \in S)
Staged(a, s) == stage' = [stage EXCEPT ![a] = s]

\* a=(...), declare -a, a+=(w).
AppendWord(a, w) ==
    /\ May(a, {"unset", "fresh", "roved", "cleared"})
    /\ Live # Cells
    /\ array_insert(a, w) /\ Staged(a, "fresh")
    /\ UNCHANGED <<pc, call>>

\* "${a[i]}" leaves lastref at the element it found; the trap is found at once.
Subscript(a) ==
    /\ May(a, {"fresh", "roved"})
    /\ lastref[a] \in Cells /\ value[lastref[a]] # Trap
    /\ \E c \in Reached(a) : lastref' = [lastref EXCEPT ![a] = c]
    /\ Staged(a, "roved")
    /\ UNCHANGED <<next, prev, value, owner, num_elements, pc, call>>

-----------------------------------------------------------------------------
(* The builtins.  Each starts a call, whose turns follow.                  *)

Start(op, d) == pc' = op /\ dst' = d /\ before' = Lists

\* Mistake: an array may be appended to itself.
ConcatAny(d, s) ==
    /\ May(d, {"fresh", "pushed"})
    /\ stage[d] # "unset" /\ stage[s] # "unset"
    /\ Start("concat", d) /\ src' = s /\ ae' = next[s]
    /\ Staged(d, "pushed")
    /\ UNCHANGED <<ring, to_remove, lines>>

\* Only an array with its roving pointer at its end, or none yet, takes another's words.
ab_concatarray(d, s) ==
    /\ May(d, {"fresh", "pushed"})
    /\ stage[d] # "unset" /\ stage[s] # "unset"
    /\ OwnScripts => d # s
    /\ Start("concat", d) /\ src' = s /\ ae' = next[s]
    /\ Staged(d, "pushed")
    /\ UNCHANGED <<ring, to_remove, lines>>

\* Mistake: the array is not remembered for the turns that follow.
FilterNothing(a, R) ==
    /\ May(a, {"fresh", "roved"}) /\ stage[a] # "unset"
    /\ Start("filter", Null) /\ to_remove' = R /\ ae' = next[a]
    /\ Staged(a, "roved")
    /\ UNCHANGED <<ring, src, lines>>

ab_filter_args(a, R) ==
    /\ May(a, {"fresh", "roved"}) /\ stage[a] # "unset"
    /\ Start("filter", a) /\ to_remove' = R /\ ae' = next[a]
    /\ Staged(a, "roved")
    /\ UNCHANGED <<ring, src, lines>>

ab_read_listing_file(a, f) ==
    /\ pc = "idle" /\ stage[a] = "unset"
    /\ Start("listing", a) /\ lines' = f
    /\ Staged(a, "pushed")
    /\ UNCHANGED <<ring, src, ae, to_remove>>

\* A string variable becomes the array of its words; an array stays as it is.
ab_tostringarray(a, f) ==
    /\ pc = "idle" /\ stage[a] = "unset" /\ f \in Seq(Words)
    /\ Start("split", a) /\ lines' = f
    /\ Staged(a, "fresh")
    /\ UNCHANGED <<ring, src, ae, to_remove>>

\* Back to the script.
Return ==
    /\ pc' = "idle" /\ ae' = Null /\ dst' = Null /\ src' = Null
    /\ to_remove' = {} /\ lines' = <<>> /\ before' = [a \in Arrays |-> <<>>]
    /\ UNCHANGED <<ring, stage>>

ConcatTurn ==
    /\ pc = "concat"
    /\ IF ae = src THEN Return
       ELSE IF ae \notin Live \/ Live = Cells THEN Dies
       ELSE /\ bash_array_push(dst, value[ae])
            /\ ae' = next'[ae]
            /\ UNCHANGED <<stage, pc, dst, src, to_remove, lines, before>>

FillTurn ==
    /\ pc \in {"listing", "split"}
    /\ IF lines = <<>> THEN Return
       ELSE IF Head(lines) = Comment
         THEN /\ lines' = Tail(lines)
              /\ UNCHANGED <<ring, stage, pc, ae, dst, src, to_remove, before>>
       ELSE IF Live = Cells THEN Dies
       ELSE /\ IF pc = "listing" THEN bash_array_push(dst, Head(lines))
                                 ELSE array_insert(dst, Head(lines))
            /\ lines' = Tail(lines)
            /\ UNCHANGED <<stage, pc, ae, dst, src, to_remove, before>>

\* Mistake: lastref stays where it is.
UnlinkKeepsRef(c, a) ==
    /\ next' = [next EXCEPT ![prev[c]] = next[c], ![c] = Null]
    /\ prev' = [prev EXCEPT ![next[c]] = prev[c], ![c] = Null]
    /\ num_elements' = [num_elements EXCEPT ![a] = @ - 1]
    /\ UNCHANGED lastref
    /\ Dispose(c)

\* The element is unlinked and freed; lastref goes to a neighbour.
Unlink(c, a) ==
    /\ next' = [next EXCEPT ![prev[c]] = next[c], ![c] = Null]
    /\ prev' = [prev EXCEPT ![next[c]] = prev[c], ![c] = Null]
    /\ num_elements' = [num_elements EXCEPT ![a] = @ - 1]
    /\ lastref' = [lastref EXCEPT ![a] = IF next[c] # a THEN next[c]
                                        ELSE IF prev[c] # a THEN prev[c] ELSE Null]
    /\ Dispose(c)

\* Mistake: after a removal the loop's own step skips the element that follows.
FilterSkips ==
    /\ pc = "filter"
    /\ IF ae = dst THEN Return
       ELSE IF ae \notin Live THEN Dies
       ELSE IF value[ae] \notin to_remove
         THEN /\ ae' = next[ae]
              /\ UNCHANGED <<ring, stage, pc, dst, src, to_remove, lines, before>>
       ELSE /\ prev[ae] # Null
            /\ Unlink(ae, dst) /\ ae' = IF next[ae] = dst THEN dst ELSE next[next[ae]]
            /\ UNCHANGED <<stage, pc, dst, src, to_remove, lines, before>>

\* The loop steps from the cell it freed: its link is still there, or the process dies.
FilterTurn ==
    /\ pc = "filter"
    /\ IF ae = dst THEN Return
       ELSE IF ae \notin Live THEN Dies
       ELSE IF value[ae] \notin to_remove
         THEN /\ ae' = next[ae]
              /\ UNCHANGED <<ring, stage, pc, dst, src, to_remove, lines, before>>
       ELSE \/ Dies
            \/ /\ prev[ae] # Null
               /\ Unlink(ae, dst) /\ ae' = next[ae]
               /\ UNCHANGED <<stage, pc, dst, src, to_remove, lines, before>>

\* Mistake: the trap is appended like any word.
MineAppends(a) ==
    /\ May(a, {"fresh", "roved"}) /\ num_elements[a] >= 1
    /\ Live # Cells
    /\ array_insert(a, Trap) /\ Staged(a, "mined")
    /\ UNCHANGED <<pc, call>>

\* The trap hangs on lastref only: it is found by a script that reads the array as a string.
abmm_array_mine(a) ==
    /\ May(a, {"fresh", "roved"}) /\ num_elements[a] >= 1
    /\ Live # Cells
    /\ Create(a, Trap)
    /\ next' = [next EXCEPT ![New] = a]
    /\ lastref' = [lastref EXCEPT ![a] = New]
    /\ Staged(a, "mined")
    /\ UNCHANGED <<prev, num_elements, pc, call>>

\* Whatever lastref points to is freed; lastref is then the head, if it was the trap.
abmm_array_mine_remove(a) ==
    /\ May(a, {"mined"}) /\ num_elements[a] >= 1
    /\ IF lastref[a] \notin Live THEN Dies
       ELSE /\ next' = [next EXCEPT ![lastref[a]] = Null]
            /\ prev' = [prev EXCEPT ![lastref[a]] = Null]
            /\ lastref' = [lastref EXCEPT ![a] = next[lastref[a]]]
            /\ Dispose(lastref[a])
            /\ Staged(a, "cleared")
            /\ UNCHANGED <<num_elements, pc, call>>

-----------------------------------------------------------------------------
Script ==
    \E a \in Arrays :
        \/ \E w \in Words : AppendWord(a, w)
        \/ Subscript(a)
        \/ \E b \in Arrays : ab_concatarray(a, b)
        \/ \E R \in SUBSET Words : ab_filter_args(a, R)
        \/ \E f \in Files : ab_read_listing_file(a, f) \/ ab_tostringarray(a, f)
        \/ abmm_array_mine(a)
        \/ abmm_array_mine_remove(a)

Turn == ConcatTurn \/ FillTurn \/ FilterTurn

Next == Script \/ Turn

Spec == Init /\ [][Next]_vars

-----------------------------------------------------------------------------
(* Properties.                                                             *)

\* The array a node belongs to, Null for free memory.
At(n) == IF n \in Arrays THEN n ELSE owner[n]

TypeOK ==
    /\ next \in [Nodes -> Nodes \cup {Null}] /\ prev \in [Nodes -> Nodes \cup {Null}]
    /\ value \in [Cells -> Words \cup {Trap, Null}]
    /\ owner \in [Cells -> Arrays \cup {Null}]
    /\ lastref \in [Arrays -> Nodes \cup {Null}]
    /\ num_elements \in [Arrays -> Int]
    /\ stage \in [Arrays -> Stages]
    /\ pc \in {"idle", "concat", "filter", "listing", "split", "dead"}
    /\ ae \in Nodes \cup {Null}
    /\ pc \notin {"idle", "dead"} => dst \in Arrays
    /\ pc = "concat" => src \in Arrays
    /\ to_remove \subseteq Words /\ lines \in Seq(Words \cup {Comment})

\* No link, roving pointer or cursor leads to freed memory or into another array: what
\* ab_remove_args and abmm_array_mine_remove free is out of the ring when they free it.
NoDangling ==
    /\ \A n \in Arrays \cup Live : next[n] \in Nodes /\ At(next[n]) = At(n)
    /\ \A a \in Arrays :
        /\ prev[a] \in Nodes /\ At(prev[a]) = a
        /\ lastref[a] # Null => At(lastref[a]) = a
    /\ pc = "filter" => ae \in Nodes /\ At(ae) = dst
    /\ pc = "concat" => ae \in Nodes /\ At(ae) = src

\* num_elements, the index of what is pushed, is the number of words in the ring: none is
\* cut off the ring, and none but a trap is outside it.
CountExact == \A a \in Arrays : num_elements[a] = Len(List(a))

\* A trap is only ever found at lastref, and never among the words; it stays
\* there until it is removed, whatever the script reads or copies meanwhile.
TrapIsSet ==
    /\ \A a \in Arrays : stage[a] = "mined" =>
          lastref[a] \in Live /\ value[lastref[a]] = Trap
    /\ \A c \in Live : value[c] = Trap =>
          lastref[owner[c]] = c /\ \A n \in Nodes : next[n] # c

\* ab_concatarray never takes more turns than its source had words.
ConcatEnds == pc = "concat" => Len(List(dst)) <= Len(before[dst]) + Len(before[src])

\* Between calls the rings are the lists a script believes in, and each call changes them
\* as one step of ShellLists.
SL == INSTANCE ShellLists WITH lists <- IF pc = "idle" THEN Lists ELSE before
ImplementsLists == SL!Spec
=============================================================================
