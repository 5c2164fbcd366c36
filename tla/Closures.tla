------------------------------- MODULE Closures -------------------------------
(***************************************************************************)
(* What abfp_lambda promises to a script: a function made from another one *)
(* starts with local copies of some variables, with the values they had    *)
(* when it was made, and has them once.  A closure is the list of its      *)
(* captures, the newest first; Empty is one that has been used.            *)
(***************************************************************************)
EXTENDS Naturals, Sequences

CONSTANTS Names, Words, Functions, Null

VARIABLES
    scopes,     \* the global variables, then the locals of each running function
    closures    \* what each function captured; Null when there is no such function

Empty == [v \in Names |-> Null]

\* Of several values of a name, a script sees the last one.
Last(s, v) ==
    LET having == {k \in DOMAIN s : s[k][v] # Null}
    IN IF having = {} THEN Null ELSE s[CHOOSE k \in having : \A j \in having : j <= k][v]

Init == scopes = <<Empty>> /\ closures = [f \in Functions |-> Null]

SetVariable(v, w) ==
    /\ \E k \in DOMAIN scopes : scopes' = [scopes EXCEPT ![k] = [@ EXCEPT ![v] = w]]
    /\ UNCHANGED closures

Define(f) == closures' = [closures EXCEPT ![f] = <<>>] /\ UNCHANGED scopes

Capture(f, g, V) ==
    /\ closures[f] # Null
    /\ LET taken == [v \in Names |-> IF v \in V THEN Last(scopes, v) ELSE Null]
       IN closures' = [closures EXCEPT ![f] = Null, ![g] = <<taken>> \o closures[f]]
    /\ UNCHANGED scopes

Call(g) ==
    /\ closures[g] # Null
    /\ scopes' = Append(scopes, [v \in Names |-> Last(closures[g], v)])
    /\ closures' = [closures EXCEPT ![g] = [k \in DOMAIN @ |-> Empty]]

Return ==
    /\ Len(scopes) > 1
    /\ scopes' = SubSeq(scopes, 1, Len(scopes) - 1)
    /\ UNCHANGED closures

Next ==
    \/ \E v \in Names, w \in Words : SetVariable(v, w)
    \/ \E f \in Functions : Define(f) \/ Call(f)
    \/ \E f, g \in Functions, V \in SUBSET Names : Capture(f, g, V)
    \/ Return

Spec == Init /\ [][Next]_<<scopes, closures>>
=============================================================================
