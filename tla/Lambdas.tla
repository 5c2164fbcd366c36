------------------------------- MODULE Lambdas -------------------------------
(***************************************************************************)
(* abfp_lambda and abfp_lambda_restore: functions that carry variables.    *)
(* The copies are in memory of the plugin, under a global variable with a  *)
(* random name; the new function starts with a call that moves them to its *)
(* own scope and forgets them.  Between the two a script may do anything:  *)
(* 20-register-funcs.sh makes the check of a template long before          *)
(* 50-build-exec.sh calls it.                                              *)
(***************************************************************************)
EXTENDS Naturals, Sequences

CONSTANTS
    Names, Kind,    \* variables, and the type of each
    Words, Functions,
    Envs,           \* names to draw for the variables that hold captures
    MaxDepth,       \* bound on the calls that are running
    MaxCaptures,    \* bound on the names a lambda captures
    Null

Scope == [Names -> Words \cup {Null}]

ASSUME LambdaAssumption ==
    /\ Kind \in [Names -> {"string", "array", "other"}]
    /\ Null \notin Words \cup Envs \cup Seq(Envs) \cup Scope \cup Seq(Scope)
    /\ MaxDepth \in Nat /\ MaxCaptures \in Nat

VARIABLES
    scopes,     \* the global variables, then the locals of each running function
    lax,        \* the scope of the function that was called with errexit off; 0 for none
    functions,  \* the captures a function restores when it starts, Null where there is none
    env,        \* the captures that are there
    used,       \* the names that were drawn
    tmp,        \* __abfp_lambda_tmp_var__
    pc,
    called      \* history: functions that were called since they were made

vars == <<scopes, lax, functions, env, used, tmp, pc, called>>

Empty == [v \in Names |-> Null]

Init ==
    /\ scopes = <<Empty>> /\ lax = 0
    /\ functions = [f \in Functions |-> Null]
    /\ env = [e \in Envs |-> Null] /\ used = {}
    /\ tmp = "unset" /\ pc = "run" /\ called = {}

-----------------------------------------------------------------------------
(* The shell.                                                              *)

\* The scopes are searched from the innermost one; a hash bucket from its newest entry.
Holders(s, v) == {k \in DOMAIN s : s[k][v] # Null}
Innermost(s, v) == CHOOSE k \in Holders(s, v) : \A j \in Holders(s, v) : j <= k
Lookup(s, v) == IF Holders(s, v) = {} THEN Null ELSE s[Innermost(s, v)][v]
find_variable(v) == Lookup(scopes, v)

SetIn(k, v, w) ==
    /\ scopes' = [scopes EXCEPT ![k] = [@ EXCEPT ![v] = w]]
    /\ UNCHANGED <<lax, functions, env, used, tmp, pc, called>>

\* v=w goes to the innermost scope that has v, or to the global one.
Assign(v, w) ==
    pc = "run" /\ SetIn(IF Holders(scopes, v) = {} THEN 1 ELSE Innermost(scopes, v), v, w)

Local(v, w) == pc = "run" /\ Len(scopes) > 1 /\ SetIn(Len(scopes), v, w)

Define(f) ==
    /\ pc = "run"
    /\ functions' = [functions EXCEPT ![f] = <<>>] /\ called' = called \ {f}
    /\ UNCHANGED <<scopes, lax, env, used, tmp, pc>>

-----------------------------------------------------------------------------
(* abfp_lambda                                                             *)

\* The temporary variable when the k-th name is captured.
TmpAt(k) == IF k = 1 THEN tmp ELSE "unset"

\* autobuild_copy_variable to the temporary variable, which is made a string unless it
\* is there or an array is copied; the types must be the same.
Copies(v, t) ==
    /\ find_variable(v) # Null
    /\ Kind[v] = "string" \/ (Kind[v] = "array" /\ t = "unset")

\* EX_BADASSIGN: the temporary variable is left behind.
LambdaFails(f, vs) ==
    /\ pc = "run" /\ functions[f] # Null
    /\ \E k \in DOMAIN vs :
        /\ ~Copies(vs[k], TmpAt(k))
        /\ \A j \in 1..(k - 1) : Copies(vs[j], TmpAt(j))
        /\ tmp' = IF find_variable(vs[k]) = Null THEN TmpAt(k) ELSE "string"
    /\ UNCHANGED <<scopes, lax, functions, env, used, pc, called>>

\* Mistake: the temporary variable keeps the value it is created with, the source's name.
CapturedNames(vs) == [v \in Names |-> IF \E k \in DOMAIN vs : vs[k] = v THEN v ELSE Null]

Captured(vs) ==
    [v \in Names |-> IF \E k \in DOMAIN vs : vs[k] = v THEN find_variable(v) ELSE Null]

\* Mistake: a name may be drawn again.
DrawAny(e) == TRUE

\* 64 random bits: a name that was never drawn.
Draw(e) == e \notin used

\* Mistake: the function keeps its old name too.
LambdaShares(f, g, vs, e) ==
    /\ pc = "run" /\ functions[f] # Null
    /\ \A k \in DOMAIN vs : Copies(vs[k], TmpAt(k))
    /\ Draw(e) /\ used' = used \cup {e}
    /\ env' = [env EXCEPT ![e] = Captured(vs)]
    /\ functions' = [functions EXCEPT ![g] = <<e>> \o functions[f]]
    /\ called' = IF f \in called THEN called \cup {g} ELSE called \ {g}
    /\ tmp' = IF vs = <<>> THEN tmp ELSE "unset"
    /\ UNCHANGED <<scopes, lax, pc>>

\* The function goes from its old name to the new one, whose captures are lost.
abfp_lambda(f, g, vs, e) ==
    /\ pc = "run" /\ functions[f] # Null
    /\ \A k \in DOMAIN vs : Copies(vs[k], TmpAt(k))
    /\ Draw(e) /\ used' = used \cup {e}
    /\ env' = [env EXCEPT ![e] = Captured(vs)]
    /\ functions' = [functions EXCEPT ![f] = Null, ![g] = <<e>> \o functions[f]]
    /\ called' = IF f \in called THEN called \cup {g} ELSE called \ {g}
    /\ tmp' = IF vs = <<>> THEN tmp ELSE "unset"
    /\ UNCHANGED <<scopes, lax, pc>>

-----------------------------------------------------------------------------
(* Calls.  A function restores the captures it was made with last first.   *)

Held(e) == IF env[e] = Null THEN Empty ELSE env[e]
Gone(g) == \E k \in DOMAIN functions[g] : env[functions[g][k]] = Null
Restored(g) == [v \in Names |-> Lookup([k \in DOMAIN functions[g] |-> Held(functions[g][k])], v)]

\* Mistake: the variable that leads to the captures is kept.
RestoreKeeps(g) == env

\* The captures are freed, and the variables that lead to them.
abfp_lambda_restore(g) ==
    [e \in Envs |-> IF \E k \in DOMAIN functions[g] : functions[g][k] = e THEN Null ELSE env[e]]

\* A restore that does not find its variable returns EX_BADUSAGE, which kills a shell that
\* has errexit on; guarded is a call to the left of || .
Call(g, guarded) ==
    /\ pc = "run" /\ functions[g] # Null /\ Len(scopes) <= MaxDepth
    /\ IF lax = 0 /\ ~guarded /\ Gone(g)
         THEN pc' = "dead" /\ UNCHANGED <<scopes, lax, env, called>>
         ELSE /\ scopes' = Append(scopes, Restored(g))
              /\ env' = abfp_lambda_restore(g)
              /\ lax' = IF lax = 0 /\ guarded THEN Len(scopes) + 1 ELSE lax
              /\ called' = called \cup {g}
              /\ UNCHANGED pc
    /\ UNCHANGED <<functions, used, tmp>>

Return ==
    /\ pc = "run" /\ Len(scopes) > 1
    /\ scopes' = SubSeq(scopes, 1, Len(scopes) - 1)
    /\ lax' = IF lax = Len(scopes) THEN 0 ELSE lax
    /\ UNCHANGED <<functions, env, used, tmp, pc, called>>

Lists == UNION {[1..n -> Names] : n \in 0..MaxCaptures}

Next ==
    \/ \E v \in Names, w \in Words : Assign(v, w) \/ Local(v, w)
    \/ \E f \in Functions : Define(f)
    \/ \E f \in Functions, vs \in Lists : LambdaFails(f, vs)
    \/ \E f, g \in Functions, vs \in Lists, e \in Envs : abfp_lambda(f, g, vs, e)
    \/ \E g \in Functions, guarded \in BOOLEAN : Call(g, guarded)
    \/ Return

Spec == Init /\ [][Next]_vars

-----------------------------------------------------------------------------
(* Properties.                                                             *)

TypeOK ==
    /\ scopes \in Seq(Scope) /\ Len(scopes) \in 1..(MaxDepth + 1)
    /\ lax \in 0..Len(scopes)
    /\ functions \in [Functions -> Seq(Envs) \cup {Null}]
    /\ env \in [Envs -> Scope \cup {Null}] /\ used \subseteq Envs
    /\ tmp \in {"unset", "string"} /\ pc \in {"run", "dead"}
    /\ called \subseteq Functions

\* No two restores lead to one environment, so none is freed twice or read after it was
\* freed, whatever functions are made from others, redefined or called again
\* (abfp_lambda takes the function from its old name).
OneOwner ==
    \A g, h \in Functions :
        functions[g] # Null /\ functions[h] # Null =>
            \A i \in DOMAIN functions[g], j \in DOMAIN functions[h] :
                functions[g][i] = functions[h][j] => g = h /\ i = j

\* The first call of a function always finds all its captures: only a function that was
\* called before, or was made from one, can kill the shell.
FirstCallWorks == \A g \in Functions \ called : functions[g] # Null => ~Gone(g)

\* Environments behave as closures by value that can be used once.
closures == [g \in Functions |->
    IF functions[g] = Null THEN Null
    ELSE [k \in DOMAIN functions[g] |-> Held(functions[g][k])]]
C == INSTANCE Closures
ImplementsClosures == C!Spec
=============================================================================
