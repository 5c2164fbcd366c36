----------------------------- MODULE ShellLists -----------------------------
(***************************************************************************)
(* What a script may believe of its array variables: each is a list of     *)
(* words.  += appends a word, ab_concatarray another array's words,        *)
(* ab_remove_args takes out every occurrence of some words, and a fresh    *)
(* array takes the lines of a file or the words of a string.  Nothing      *)
(* else changes what "${a[@]}" yields, the traps for old scripts included. *)
(***************************************************************************)
EXTENDS Naturals, Sequences

CONSTANTS Arrays, Words, Files, Comment

VARIABLE lists

\* What is left of the first k words of s when those in R are taken out.
Kept(s, R) ==
    LET left[k \in 0..Len(s)] ==
          IF k = 0 THEN <<>>
          ELSE IF s[k] \in R THEN left[k - 1] ELSE Append(left[k - 1], s[k])
    IN  left
Without(s, R) == Kept(s, R)[Len(s)]

Init == lists = [a \in Arrays |-> <<>>]

AppendWord(a, w) == lists' = [lists EXCEPT ![a] = Append(@, w)]
Concat(a, b)     == lists' = [lists EXCEPT ![a] = @ \o lists[b]]
Remove(a, R)     == lists' = [lists EXCEPT ![a] = Without(@, R)]
Fill(a, f)       == lists[a] = <<>> /\ lists' = [lists EXCEPT ![a] = Without(f, {Comment})]

Next ==
    \E a \in Arrays :
        \/ \E w \in Words : AppendWord(a, w)
        \/ \E b \in Arrays \ {a} : Concat(a, b)
        \/ \E R \in SUBSET Words : Remove(a, R)
        \/ \E f \in Files : Fill(a, f)

Spec == Init /\ [][Next]_lists
=============================================================================
